---------------------------- MODULE Spec2Model ----------------------------
(***************************************************************************)
(* Model of the report transformation pipeline of pipeline-cartera         *)
(* (src/app/reportes.py, src/config.py, src/pipeline.py).                  *)
(*                                                                         *)
(* Conventions                                                             *)
(*  - A spreadsheet / DataFrame cell is a record tagged by t:              *)
(*      [t |-> "nan"]                 a null cell (NaN / None)             *)
(*      [t |-> "num", n, d]           the number n/d, d > 0, in lowest     *)
(*                                    terms (floats are kept exact)        *)
(*      [t |-> "str", s]              text; s is a sequence of one-        *)
(*                                    character strings                    *)
(*  - A DataFrame is [cols |-> sequence of column names,                   *)
(*                    filas |-> sequence of [idx |-> label, v |-> row]]     *)
(*    where row is a function from the column names to cells and idx is    *)
(*    the pandas index label of the row.                                   *)
(*  - Column names are written without accents (the module is ASCII):      *)
(*    "Codigo acreditado" stands for 'Código acreditado', and so on.       *)
(***************************************************************************)
EXTENDS Integers, Sequences, FiniteSets, TLC

VARIABLES
    pc,                     \* position in procesar_reporte_antiguedad / the call
    archivo,                \* the uploaded workbook: size, header, data rows
    codigos_a_excluir,      \* the caller-supplied exclusion list (or NoLista)
    plantilla,              \* the template "ejemplo con hojas.xlsx", if any
    fallo,                  \* the presentation step the environment makes fail
    df,                     \* df           (loaded, then standardized)
    df_filtrado,            \* df_filtrado
    df_completo,            \* df_completo  (the object the aggregations mutate)
    df_completo_sin_links,  \* df_completo_sin_links (the full ledger)
    df_ordenado,            \* df_ordenado
    df_mora,                \* df_mora
    df_saldo_vencido,       \* df_saldo_vencido (NoDF when None)
    coordinaciones_data,    \* insertion-ordered dict: <<[coord, df_coord], ...>>
    pendientes,             \* per-unit sheets still to be written (loop position)
    libro,                  \* sheets of the writer's workbook, in order
    salida,                 \* the file at ruta_salida
    fallos,                 \* presentation failures raised so far
    resultado,              \* what the call returned or raised
    llamada,                \* a call of a pure function: [fn, arg]
    ret                     \* its result

vars == <<pc, archivo, codigos_a_excluir, plantilla, fallo, df, df_filtrado,
          df_completo, df_completo_sin_links, df_ordenado, df_mora,
          df_saldo_vencido, coordinaciones_data, pendientes, libro, salida,
          fallos, resultado, llamada, ret>>

-----------------------------------------------------------------------------
(* Cells and exact arithmetic                                              *)

NaN == [t |-> "nan"]
Str(s) == [t |-> "str", s |-> s]

RECURSIVE Gcd(_, _)
Gcd(a, b) == IF b = 0 THEN a ELSE Gcd(b, a % b)

Abs(x) == IF x < 0 THEN -x ELSE x

\* the number n/d (d # 0) in lowest terms with a positive denominator
Q(n, d) ==
    LET g == Gcd(Abs(n), Abs(d))
        s == IF d < 0 THEN -1 ELSE 1
    IN  [t |-> "num", n |-> (s * n) \div g, d |-> (s * d) \div g]

Num(n) == [t |-> "num", n |-> n, d |-> 1]

isna(c) == c.t = "nan"
notna(c) == c.t # "nan"

\* comparisons of a numeric cell with an integer constant; a comparison with
\* NaN is False, as in Python
Lt(c, k) == c.t = "num" /\ c.n < k * c.d
Le(c, k) == c.t = "num" /\ c.n <= k * c.d
Gt(c, k) == c.t = "num" /\ c.n > k * c.d
Ge(c, k) == c.t = "num" /\ c.n >= k * c.d
EqK(c, k) == c.t = "num" /\ c.n = k * c.d

\* a > b on numeric cells
GtNum(a, b) == a.n * b.d > b.n * a.d

Add(a, b) == Q(a.n * b.d + b.n * a.d, a.d * b.d)

\* a / b in float arithmetic: NaN propagates; b # 0 is the caller's guard
Div(a, b) ==
    IF isna(a) \/ isna(b) THEN NaN
    ELSE Q(a.n * b.d, a.d * b.n)

-----------------------------------------------------------------------------
(* Text                                                                    *)

Digitos == <<"0", "1", "2", "3", "4", "5", "6", "7", "8", "9">>

EsDigito(ch) == \E i \in 1..10 : Digitos[i] = ch

ValorDigito(ch) == (CHOOSE i \in 1..10 : Digitos[i] = ch) - 1

RECURSIVE NatToStr(_)
NatToStr(n) ==
    IF n < 10 THEN <<Digitos[n + 1]>>
    ELSE NatToStr(n \div 10) \o <<Digitos[(n % 10) + 1]>>

\* str(int)
IntToStr(n) == IF n < 0 THEN <<"-">> \o NatToStr(-n) ELSE NatToStr(n)

RECURSIVE StrToNat(_)
StrToNat(s) ==
    IF Len(s) = 0 THEN 0
    ELSE 10 * StrToNat(SubSeq(s, 1, Len(s) - 1)) + ValorDigito(s[Len(s)])

TodosDigitos(s) == Len(s) > 0 /\ \A i \in 1..Len(s) : EsDigito(s[i])

Ceros(k) == [i \in 1..k |-> "0"]

\* str.zfill(width): pads on the left with zeros, after a leading sign
zfill(s, width) ==
    IF Len(s) >= width THEN s
    ELSE IF Len(s) > 0 /\ s[1] \in {"-", "+"}
         THEN <<s[1]>> \o Ceros(width - Len(s)) \o Tail(s)
         ELSE Ceros(width - Len(s)) \o s

\* pd.to_numeric(errors='coerce') of one cell: numbers stay, text holding a
\* decimal integer (optionally signed) becomes that number, anything else NaN
to_numeric(c) ==
    IF c.t = "num" THEN c
    ELSE IF c.t = "nan" THEN NaN
    ELSE IF TodosDigitos(c.s) THEN Num(StrToNat(c.s))
    ELSE IF Len(c.s) > 1 /\ c.s[1] = "-" /\ TodosDigitos(Tail(c.s))
         THEN Num(-StrToNat(Tail(c.s)))
    ELSE NaN

\* .fillna(0)
fillna0(c) == IF isna(c) THEN Num(0) ELSE c

\* .astype(int): truncation toward zero
astype_int(c) ==
    IF c.n >= 0 THEN c.n \div c.d ELSE -((-c.n) \div c.d)

\* pd.to_numeric(col, errors='coerce').fillna(0).astype(int).astype(str).str.zfill(w)
CodigoEstandar(c, w) == Str(zfill(IntToStr(astype_int(fillna0(to_numeric(c)))), w))

\* astype(str) of a cell of a text column
astype_str(c) ==
    IF c.t = "str" THEN c.s
    ELSE IF c.t = "nan" THEN <<"n", "a", "n">>
    ELSE IntToStr(astype_int(c))

-----------------------------------------------------------------------------
(* Configuration (src/config.py)                                           *)

LISTA_FRAUDE ==
    {  <<"0","0","1","0","4","1">>, <<"0","0","1","0","0","5">>, <<"0","0","1","0","2","3">>,
       <<"0","0","1","0","1","8">>, <<"0","0","1","0","1","4">>, <<"0","0","1","0","2","4">>,
       <<"0","0","1","0","2","5">>, <<"0","0","1","0","4","2">>, <<"0","0","1","0","1","9">>,
       <<"0","0","1","0","2","6">>, <<"0","0","1","0","4","8">>, <<"0","0","1","0","4","9">>,
       <<"0","0","1","0","5","0">>, <<"0","0","1","0","5","1">>, <<"0","0","1","0","2","8">>,
       <<"0","0","1","0","0","2">>, <<"0","0","1","0","0","8">>, <<"0","0","1","0","3","4">>,
       <<"0","0","1","0","1","0">>, <<"0","0","1","0","4","5">>, <<"0","0","1","0","4","4">>,
       <<"0","0","1","0","2","9">>, <<"0","0","1","0","0","7">>, <<"0","0","1","0","3","2">>,
       <<"0","0","1","0","2","2">>, <<"0","0","1","0","0","0">>, <<"0","0","1","0","4","0">> }

columna_codigo == "Codigo acreditado"
columna_mora == "Dias de mora"
columna_geolocalizacion == "Geolocalizacion domicilio"
columna_coordinacion == "Coordinacion"

-----------------------------------------------------------------------------
(* asignar_rango_mora                                                      *)

\* (variant: the second threshold moved from 7 to 8)
asignar_rango_mora_umbral(dias_mora) ==
    IF isna(dias_mora) \/ Lt(dias_mora, 1) THEN <<"0">>
    ELSE IF Ge(dias_mora, 1) /\ Le(dias_mora, 8) THEN <<"7">>
    ELSE IF Ge(dias_mora, 9) /\ Le(dias_mora, 15) THEN <<"1", "5">>
    ELSE IF Ge(dias_mora, 16) /\ Le(dias_mora, 30) THEN <<"3", "0">>
    ELSE IF Ge(dias_mora, 31) /\ Le(dias_mora, 60) THEN <<"6", "0">>
    ELSE IF Ge(dias_mora, 61) /\ Le(dias_mora, 90) THEN <<"9", "0">>
    ELSE IF Gt(dias_mora, 90) THEN <<">", "9", "0">>
    ELSE <<"0">>

asignar_rango_mora(dias_mora) ==
    IF isna(dias_mora) \/ Lt(dias_mora, 1) THEN <<"0">>
    ELSE IF Ge(dias_mora, 1) /\ Le(dias_mora, 7) THEN <<"7">>
    ELSE IF Ge(dias_mora, 8) /\ Le(dias_mora, 15) THEN <<"1", "5">>
    ELSE IF Ge(dias_mora, 16) /\ Le(dias_mora, 30) THEN <<"3", "0">>
    ELSE IF Ge(dias_mora, 31) /\ Le(dias_mora, 60) THEN <<"6", "0">>
    ELSE IF Ge(dias_mora, 61) /\ Le(dias_mora, 90) THEN <<"9", "0">>
    ELSE IF Gt(dias_mora, 90) THEN <<">", "9", "0">>
    ELSE <<"0">>

-----------------------------------------------------------------------------
(* DataFrame operations (pandas)                                           *)

\* pd.DataFrame()
DataFrameVacio == [cols |-> <<>>, filas |-> <<>>]

\* None
NoDF == [t |-> "None"]

Columnas(d) == {d.cols[i] : i \in 1..Len(d.cols)}

\* col in df.columns
Tiene(d, c) == c \in Columnas(d)

\* df.columns.get_loc(c), 0-based
get_loc(d, c) == (CHOOSE i \in 1..Len(d.cols) : d.cols[i] = c) - 1

\* the index labels of a frame, in row order
Indices(d) == [i \in 1..Len(d.filas) |-> d.filas[i].idx]

\* df[mask]: the rows satisfying P, labels kept
Filtrar(d, P(_)) == [d EXCEPT !.filas = SelectSeq(d.filas, P)]

\* df[c] = values, values given per row: a new column goes last, an existing
\* one keeps its place
Asignar(d, c, F(_)) ==
    [cols  |-> IF Tiene(d, c) THEN d.cols ELSE Append(d.cols, c),
     filas |-> [i \in 1..Len(d.filas) |->
                  [d.filas[i] EXCEPT !.v =
                      [k \in DOMAIN d.filas[i].v \cup {c} |->
                          IF k = c THEN F(d.filas[i]) ELSE d.filas[i].v[k]]]]]

\* the sequence s with x put at 0-based position loc
InsertarEn(s, loc, x) == SubSeq(s, 1, loc) \o <<x>> \o SubSeq(s, loc + 1, Len(s))

\* df.insert(loc, c, values) for a column c the frame does not have
Insertar(d, loc, c, F(_)) ==
    [cols  |-> InsertarEn(d.cols, loc, c),
     filas |-> Asignar(d, c, F).filas]

\* df.drop(columns=cs, errors='ignore')
Quitar(d, cs) ==
    [cols  |-> SelectSeq(d.cols, LAMBDA c : c \notin cs),
     filas |-> [i \in 1..Len(d.filas) |->
                  [d.filas[i] EXCEPT !.v =
                      [k \in DOMAIN d.filas[i].v \ cs |-> d.filas[i].v[k]]]]]

\* insertion of row r into rows already in descending order of column c,
\* after every row that does not sort below it (ties keep their order)
RECURSIVE InsertarOrdenado(_, _, _)
InsertarOrdenado(s, r, c) ==
    IF Len(s) = 0 THEN <<r>>
    ELSE IF GtNum(r.v[c], Head(s).v[c]) THEN <<r>> \o s
    ELSE <<Head(s)>> \o InsertarOrdenado(Tail(s), r, c)

RECURSIVE OrdenarDesc(_, _)
OrdenarDesc(s, c) ==
    IF Len(s) = 0 THEN <<>>
    ELSE InsertarOrdenado(OrdenarDesc(SubSeq(s, 1, Len(s) - 1), c), s[Len(s)], c)

\* (variant: the rows are left in the order of the workbook)
sort_values_sin_orden(d, c) == d

\* df.sort_values(by=c, ascending=False): descending, NaN last; rows with equal
\* keys keep their order (pandas' nargsort reverses, sorts and reverses back;
\* numpy's quicksort moves no equal keys on inputs of this size)
sort_values_desc(d, c) ==
    [d EXCEPT !.filas =
        OrdenarDesc(SelectSeq(d.filas, LAMBDA r : notna(r.v[c])), c)
        \o SelectSeq(d.filas, LAMBDA r : isna(r.v[c]))]

\* Series.sum(): NaN is skipped, the empty sum is 0
RECURSIVE SumaCeldas(_)
SumaCeldas(s) ==
    IF Len(s) = 0 THEN Num(0)
    ELSE IF isna(Head(s)) THEN SumaCeldas(Tail(s))
    ELSE Add(Head(s), SumaCeldas(Tail(s)))

\* the cells of column c, in row order
Columna(filas, c) == [i \in 1..Len(filas) |-> filas[i].v[c]]

\* Series.mean(): NaN is skipped, the mean of nothing is NaN
Media(s) ==
    LET validos == SelectSeq(s, notna)
    IN  IF Len(validos) = 0 THEN NaN
        ELSE Div(SumaCeldas(validos), Num(Len(validos)))

\* Series.unique(): first-seen order
RECURSIVE Unicos(_)
Unicos(s) ==
    IF Len(s) = 0 THEN <<>>
    ELSE LET resto == Unicos(SubSeq(s, 1, Len(s) - 1))
             x == s[Len(s)]
         IN  IF \E i \in 1..Len(resto) : resto[i] = x THEN resto
             ELSE Append(resto, x)

-----------------------------------------------------------------------------
(* Ordering of text and of group keys                                      *)

\* the characters of the model's texts, in code-point order
Caracteres ==
    <<" ", "-", ".", "/", "0", "1", "2", "3", "4", "5", "6", "7", "8", "9",
      "A", "B", "C", "D", "E", "F", "G", "H", "I", "J", "K", "L", "M", "N",
      "O", "P", "Q", "R", "S", "T", "U", "V", "W", "X", "Y", "Z", "_",
      "a", "b", "c", "d", "e", "f", "g", "h", "i", "j", "k", "l", "m", "n",
      "o", "p", "q", "r", "s", "t", "u", "v", "w", "x", "y", "z">>

ord(ch) == CHOOSE i \in 1..Len(Caracteres) : Caracteres[i] = ch

\* a < b for Python strings
RECURSIVE StrLt(_, _)
StrLt(a, b) ==
    IF Len(b) = 0 THEN FALSE
    ELSE IF Len(a) = 0 THEN TRUE
    ELSE IF Head(a) = Head(b) THEN StrLt(Tail(a), Tail(b))
    ELSE ord(Head(a)) < ord(Head(b))

\* order of one grouping key: text ascending, NaN last
CeldaLt(a, b) ==
    IF isna(a) THEN FALSE
    ELSE IF isna(b) THEN TRUE
    ELSE StrLt(a.s, b.s)

\* order of tuples of grouping keys
RECURSIVE ClaveLt(_, _)
ClaveLt(a, b) ==
    IF Len(a) = 0 THEN FALSE
    ELSE IF Head(a) = Head(b) THEN ClaveLt(Tail(a), Tail(b))
    ELSE CeldaLt(Head(a), Head(b))

RECURSIVE InsertarClave(_, _)
InsertarClave(s, k) ==
    IF Len(s) = 0 THEN <<k>>
    ELSE IF ClaveLt(k, Head(s)) THEN <<k>> \o s
    ELSE <<Head(s)>> \o InsertarClave(Tail(s), k)

RECURSIVE OrdenarClaves(_)
OrdenarClaves(s) ==
    IF Len(s) = 0 THEN <<>>
    ELSE InsertarClave(OrdenarClaves(Tail(s)), Head(s))

\* the keys of df.groupby(cs, dropna=False): the distinct key tuples, sorted
ClavesGrupo(d, cs) ==
    OrdenarClaves(Unicos([i \in 1..Len(d.filas) |->
                             [j \in 1..Len(cs) |-> d.filas[i].v[cs[j]]]]))

\* the rows of one group of df.groupby(cs, dropna=False)
FilasGrupo(d, cs, k) ==
    SelectSeq(d.filas, LAMBDA r : \A j \in 1..Len(cs) : r.v[cs[j]] = k[j])

\* str.strip()
RECURSIVE lstrip(_)
lstrip(s) == IF Len(s) > 0 /\ Head(s) = " " THEN lstrip(Tail(s)) ELSE s

RECURSIVE rstrip(_)
rstrip(s) ==
    IF Len(s) > 0 /\ s[Len(s)] = " " THEN rstrip(SubSeq(s, 1, Len(s) - 1)) ELSE s

strip(s) == rstrip(lstrip(s))

-----------------------------------------------------------------------------
(* generar_link_google_maps                                                *)

Grado == "°"

\* s[k], or no character outside the string
En(s, k) == IF k \in 1..Len(s) THEN s[k] ELSE ""

\* sub in s
Contiene(s, sub) ==
    \E i \in 1..(Len(s) - Len(sub) + 1) : SubSeq(s, i, i + Len(sub) - 1) = sub

ClaseDigito == {Digitos[i] : i \in 1..10}
ClaseDigitoPunto == ClaseDigito \cup {"."}
ClaseEspacio == {" "}

\* a greedy character class: the last position of the longest run of
\* characters of 'clase' that starts at i (i - 1 when there is none)
Racha(s, i, clase) ==
    CHOOSE j \in (i - 1)..Len(s) :
        /\ \A k \in i..j : En(s, k) \in clase
        /\ En(s, j + 1) \notin clase

\* "(clase+)cierre" at position i: the group and the position after it
Campo(s, i, clase, cierre) ==
    LET j == Racha(s, i, clase)
    IN  [ok  |-> i >= 1 /\ j >= i /\ En(s, j + 1) = cierre,
         txt |-> SubSeq(s, i, j),
         sig |-> j + 2]

\* (\d+)°(\d+)'([\d.]+)\"([hemisferios]) at position i
MedioPatron(s, i, hemisferios) ==
    LET g  == Campo(s, i, ClaseDigito, Grado)
        m  == Campo(s, g.sig, ClaseDigito, "'")
        sg == Campo(s, m.sig, ClaseDigitoPunto, "\"")
    IN  IF g.ok /\ m.ok /\ sg.ok /\ En(s, sg.sig) \in hemisferios
        THEN [ok |-> TRUE, deg |-> g.txt, min |-> m.txt, sec |-> sg.txt,
              dir |-> En(s, sg.sig), sig |-> sg.sig + 1]
        ELSE [ok |-> FALSE, deg |-> <<>>, min |-> <<>>, sec |-> <<>>,
              dir |-> "", sig |-> 0]

\* coord_pattern at position i: latitude, \s+, longitude
PatronEn(s, i) ==
    LET lat == MedioPatron(s, i, {"N", "S"})
        e   == Racha(s, lat.sig, ClaseEspacio)
        lon == MedioPatron(s, e + 1, {"W", "E"})
    IN  [ok |-> lat.ok /\ e >= lat.sig /\ lon.ok, lat |-> lat, lon |-> lon]

\* re.search(coord_pattern, s): the leftmost match, or none
re_search(s) ==
    IF \E i \in 1..Len(s) : PatronEn(s, i).ok
    THEN PatronEn(s, CHOOSE i \in 1..Len(s) :
                        /\ PatronEn(s, i).ok
                        /\ \A k \in 1..(i - 1) : ~PatronEn(s, k).ok)
    ELSE [ok |-> FALSE]

SinPunto(txt) == SelectSeq(txt, LAMBDA ch : ch # ".")

\* the number of characters after the decimal point
Decimales(txt) ==
    IF \E i \in 1..Len(txt) : txt[i] = "."
    THEN Len(txt) - (CHOOSE i \in 1..Len(txt) : txt[i] = ".")
    ELSE 0

\* float(txt) of a group of digits and points: ValueError (NaN here) unless
\* it has a digit and at most one point
float(txt) ==
    IF Len(SinPunto(txt)) = 0 \/ Len(txt) - Len(SinPunto(txt)) > 1 THEN NaN
    ELSE Q(StrToNat(SinPunto(txt)), 10 ^ Decimales(txt))

Neg(a) == [a EXCEPT !.n = -a.n]

\* float(deg) + float(min)/60 + float(sec)/3600, negated on 'negativo'; NaN
\* stands for the ValueError of a float() that failed
Decimal(medio, negativo) ==
    IF isna(float(medio.sec)) THEN NaN
    ELSE IF medio.dir = negativo
    THEN Neg(Add(Add(float(medio.deg), Div(float(medio.min), Num(60))),
                 Div(float(medio.sec), Num(3600))))
    ELSE Add(Add(float(medio.deg), Div(float(medio.min), Num(60))),
             Div(float(medio.sec), Num(3600)))

VER_EN_MAPA == <<"V", "e", "r", " ", "e", "n", " ", "m", "a", "p", "a">>

URL_GENERICA ==
    <<"h", "t", "t", "p", "s", ":", "/", "/", "m", "a", "p", "s", ".", "g", "o", "o", "g", "l", "e", ".", "c", "o", "m">>

URL_BUSQUEDA ==
    <<"h", "t", "t", "p", "s", ":", "/", "/", "w", "w", "w", ".", "g", "o", "o", "g", "l", "e", ".", "c", "o", "m", "/", "m", "a", "p", "s", "/", "s", "e", "a", "r", "c", "h", "/", "?", "a", "p", "i", "=", "1", "&", "q", "u", "e", "r", "y", "=">>

\* the characters urllib.parse.quote leaves as they are
EsSeguro(ch) ==
    \/ ch \in {"_", ".", "-", "~"}
    \/ \E i \in 1..Len(Caracteres) : Caracteres[i] = ch /\ ch \notin {" ", "/"}

\* the UTF-8 bytes of the other characters of the modelled texts, as %XX
Porcentaje(ch) ==
    CASE ch = Grado -> <<"%", "C", "2", "%", "B", "0">>
      [] ch = "'"   -> <<"%", "2", "7">>
      [] ch = "\""  -> <<"%", "2", "2">>
      [] ch = ","   -> <<"%", "2", "C">>
      [] ch = "/"   -> <<"%", "2", "F">>
      [] ch = ":"   -> <<"%", "3", "A">>
      [] ch = "?"   -> <<"%", "3", "F">>
      [] ch = "="   -> <<"%", "3", "D">>

\* urllib.parse.quote_plus(s)
RECURSIVE quote_plus(_)
quote_plus(s) ==
    IF Len(s) = 0 THEN <<>>
    ELSE (IF Head(s) = " " THEN <<"+">>
          ELSE IF EsSeguro(Head(s)) THEN <<Head(s)>>
          ELSE Porcentaje(Head(s))) \o quote_plus(Tail(s))

\* the (label, URL) pair; a URL is a text, or the search URL followed by
\* "{lat_decimal},{lon_decimal}", the two numbers kept as numbers
Enlace(texto, url) == [t |-> "link", texto |-> texto, url |-> url]

UrlTexto(s) == [t |-> "texto", s |-> s]

UrlCoordenadas(lat, lon) == [t |-> "coord", base |-> URL_BUSQUEDA, lat |-> lat, lon |-> lon]

\* Caso 4: free-text search
BusquedaDeTexto(g) == Enlace(VER_EN_MAPA, UrlTexto(URL_BUSQUEDA \o quote_plus(g)))

\* Caso 3, inside try/except: the match, the conversion, the URL; an
\* exception or no match goes on to Caso 4
CoordenadasGPS_sin_signo(g, match) ==
    IF ~match.ok \/ isna(Decimal(match.lat, "S")) \/ isna(Decimal(match.lon, "W"))
    THEN BusquedaDeTexto(g)
    ELSE Enlace(VER_EN_MAPA,
                UrlCoordenadas(Decimal(match.lat, ""), Decimal(match.lon, "")))

CoordenadasGPS(g, match) ==
    IF ~match.ok \/ isna(Decimal(match.lat, "S")) \/ isna(Decimal(match.lon, "W"))
    THEN BusquedaDeTexto(g)
    ELSE Enlace(VER_EN_MAPA,
                UrlCoordenadas(Decimal(match.lat, "S"), Decimal(match.lon, "W")))

\* after geolocalizacion = str(geolocalizacion).strip()
EnlaceDeTexto_sin_url(g) ==
    IF \E i \in 1..Len(g) : g[i] \in {Grado, "'", "\"", "N", "W", "S", "E"}
    THEN CoordenadasGPS(g, re_search(g))
    ELSE BusquedaDeTexto(g)

EnlaceDeTexto(g) ==
    IF Contiene(g, <<"h", "t", "t", "p">>)
       \/ Contiene(g, <<"g", "o", "o", "g", "l", "e", ".", "c", "o", "m", "/", "m", "a", "p", "s">>)
    THEN Enlace(VER_EN_MAPA, UrlTexto(g))
    ELSE IF \E i \in 1..Len(g) : g[i] \in {Grado, "'", "\"", "N", "W", "S", "E"}
    THEN CoordenadasGPS(g, re_search(g))
    ELSE BusquedaDeTexto(g)

\* generar_link_google_maps(geolocalizacion) of a null or text cell
generar_link_google_maps(geolocalizacion) ==
    IF isna(geolocalizacion) \/ strip(geolocalizacion.s) = <<>>
    THEN Enlace(VER_EN_MAPA, UrlTexto(URL_GENERICA))
    ELSE EnlaceDeTexto(strip(geolocalizacion.s))

\* add_geolocation_links(df, geolocation_column): the label and the URL of
\* each row's link, in two columns put last
add_geolocation_links(d, geolocation_column) ==
    IF Tiene(d, geolocation_column)
    THEN Asignar(Asignar(d, "link_texto",
                         LAMBDA r : Str(generar_link_google_maps(
                                            r.v[geolocation_column]).texto)),
                 "link_url",
                 LAMBDA r : generar_link_google_maps(r.v[geolocation_column]).url)
    ELSE d

\* if 'link_texto' in df.columns and columna_geolocalizacion in df.columns:
\*     df.insert(geo_index + 1, 'Link de Geolocalizacion', df['link_texto'])
InsertarLink(d) ==
    IF Tiene(d, "link_texto") /\ Tiene(d, columna_geolocalizacion)
    THEN Insertar(d, get_loc(d, columna_geolocalizacion) + 1,
                  "Link de Geolocalizacion", LAMBDA r : r.v["link_texto"])
    ELSE d

-----------------------------------------------------------------------------
(* add_par_column                                                          *)

\* str(col).strip().lower() is 'par' or one of the 'par 2' spellings
EsColumnaPar(c) ==
    c \in {"PAR", "Par", "par", "PAR 2", "PAR2", "Par 2", "par 2", "PAR-2",
           "PAR_2", "PAR.2"}

\* (variant: 'PAR' is left where the assignment puts it, last)
add_par_column_al_final(d, mora_column) ==
    Asignar(Quitar(d, {c \in Columnas(d) : EsColumnaPar(c)}), "PAR",
            LAMBDA r : Str(asignar_rango_mora(r.v[mora_column])))

add_par_column(d, mora_column) ==
    LET sin_par == Quitar(d, {c \in Columnas(d) : EsColumnaPar(c)})
        con_par == Asignar(sin_par, "PAR",
                           LAMBDA r : Str(asignar_rango_mora(r.v[mora_column])))
        columnas == con_par.cols
        mora_index == get_loc(con_par, mora_column)
        \* columnas still lists 'PAR' at its end: the selection repeats it
        nuevas_columnas == SubSeq(columnas, 1, mora_index + 1) \o <<"PAR">>
                           \o SubSeq(columnas, mora_index + 2, Len(columnas))
    IN  [cols |-> nuevas_columnas, filas |-> con_par.filas]

\* df.loc[:, ~df.columns.duplicated()]: the first column of each name is kept
SinDuplicadas(d) == [d EXCEPT !.cols = Unicos(d.cols)]

\* df.columns.duplicated() is anywhere True
TieneDuplicadas(d) == Len(Unicos(d.cols)) # Len(d.cols)

-----------------------------------------------------------------------------
(* agregar_columna_concepto_deposito                                       *)

\* 'forma de entrega' in str(col).lower() or 'forma entrega' in str(col).lower()
EsFormaEntrega(c) == c \in {"Forma de entrega", "Forma entrega"}

\* the first column that names the delivery method, "" when there is none
ColumnaFormaEntrega(d) ==
    LET hay == {i \in 1..Len(d.cols) : EsFormaEntrega(d.cols[i])}
    IN  IF hay = {} THEN ""
        ELSE d.cols[CHOOSE i \in hay : \A j \in hay : i <= j]

\* Series.idxmax() over the rows at positions ps: the label of the first row
\* holding the greatest value
IdxMax(d, ps, valor(_)) ==
    LET p == CHOOSE i \in ps :
                 /\ \A j \in ps : ~GtNum(valor(d.filas[j]), valor(d.filas[i]))
                 /\ \A j \in ps : j < i => GtNum(valor(d.filas[i]), valor(d.filas[j]))
    IN  d.filas[p].idx

\* The Series 'concepto' as a function from index labels to cells.  It is
\* created as pd.Series([''] * len(df)), so its labels are 0 .. len(df)-1
\* whatever the labels of df; concepto.loc[label] = value sets the entry of
\* an existing label and adds the label when the Series lacks it.
ConceptoSerie(d) ==
    LET n == Len(d.filas)
        base == [l \in 0..(n - 1) |-> Str(<<>>)]
    IN  IF ~Tiene(d, "Codigo acreditado") \/ ~Tiene(d, "Ciclo") THEN base
        ELSE
        LET codigo(r) == zfill(strip(astype_str(r.v["Codigo acreditado"])), 6)
            ciclo_str(r) == zfill(strip(astype_str(r.v["Ciclo"])), 2)
            ciclo_num(r) == fillna0(to_numeric(r.v["Ciclo"]))
            concepto_temporal(r) == Str(<<"1">> \o codigo(r) \o ciclo_str(r))
            \* the rows (positions) of one code
            indices(i) == {j \in 1..n : codigo(d.filas[j]) = codigo(d.filas[i])}
            \* the label that receives the code of the rows of position i
            elegido(i) ==
                IF Cardinality(indices(i)) > 1
                THEN IdxMax(d, indices(i), ciclo_num)
                ELSE d.filas[i].idx
            asignados == {i \in 1..n : elegido(i) = d.filas[i].idx}
            etiquetas == {d.filas[i].idx : i \in asignados}
            PosDe(l) == CHOOSE i \in asignados : d.filas[i].idx = l
        IN  [l \in (0..(n - 1)) \cup etiquetas |->
                IF l \in etiquetas THEN concepto_temporal(d.filas[PosDe(l)])
                ELSE Str(<<>>)]

\* a Series put into a frame is aligned on the frame's index: a row whose
\* label the Series lacks gets NaN
Alineado(serie, r) == IF r.idx \in DOMAIN serie THEN serie[r.idx] ELSE NaN

agregar_columna_concepto_deposito(d) ==
    LET concepto == ConceptoSerie(d)
        columna_forma_entrega == ColumnaFormaEntrega(d)
    IN  IF columna_forma_entrega # ""
        THEN Insertar(d, get_loc(d, columna_forma_entrega) + 1, "Concepto Deposito",
                      LAMBDA r : Alineado(concepto, r))
        ELSE Asignar(d, "Concepto Deposito", LAMBDA r : Alineado(concepto, r))

-----------------------------------------------------------------------------
(* agregar_columnas_riesgo_y_mora                                          *)

\* (variant: the amount is at risk whatever the arrears)
SaldoRiesgo_sin_mora(r, c) == r.v[c]

\* row[c] if pd.notna(row['Dias de mora']) and row['Dias de mora'] > 0 else 0
SaldoRiesgo(r, c) ==
    IF notna(r.v["Dias de mora"]) /\ Gt(r.v["Dias de mora"], 0) THEN r.v[c]
    ELSE Num(0)

\* (row['Saldo vencido'] / row['Saldo total'])
\*     if pd.notna(row['Saldo total']) and row['Saldo total'] != 0 else 0
PctMora(r) ==
    IF notna(r.v["Saldo total"]) /\ ~EqK(r.v["Saldo total"], 0)
    THEN Div(r.v["Saldo vencido"], r.v["Saldo total"])
    ELSE Num(0)

agregar_columnas_riesgo_y_mora(d) ==
    LET columnas_requeridas == {"Dias de mora", "Saldo capital", "Saldo total",
                                "Saldo vencido"}
        columnas_faltantes == columnas_requeridas \ Columnas(d)
        cero(r) == Num(0)
        capital(r) == SaldoRiesgo(r, "Saldo capital")
        total(r) == SaldoRiesgo(r, "Saldo total")
    IN  IF columnas_faltantes # {}
        THEN Asignar(Asignar(Asignar(d, "Saldo riesgo capital", cero),
                             "Saldo riesgo total", cero), "% MORA", cero)
        ELSE IF Tiene(d, "Concepto Deposito")
        THEN LET concepto_index == get_loc(d, "Concepto Deposito")
             IN  Insertar(Insertar(Insertar(d,
                     concepto_index + 1, "Saldo riesgo capital", capital),
                     concepto_index + 2, "Saldo riesgo total", total),
                     concepto_index + 3, "% MORA", PctMora)
        ELSE Asignar(Asignar(Asignar(d, "Saldo riesgo capital", capital),
                             "Saldo riesgo total", total), "% MORA", PctMora)

-----------------------------------------------------------------------------
(* crear_hoja_x_coordinacion and crear_hoja_x_recuperador                  *)

\* some row reads row[c] in the inline risk lambdas: its arrears-days are > 0
LeeSaldo(d) ==
    \E i \in 1..Len(d.filas) :
        notna(d.filas[i].v["Dias de mora"]) /\ Gt(d.filas[i].v["Dias de mora"], 0)

\* some row reads row['Saldo vencido'] in the inline ratio lambda
LeeVencido(d) ==
    /\ Tiene(d, "Saldo total")
    /\ \E i \in 1..Len(d.filas) :
          notna(d.filas[i].v["Saldo total"]) /\ ~EqK(d.filas[i].v["Saldo total"], 0)

\* the ratio lambda of the aggregation functions, with row.get('Saldo total', 0)
PctMoraGet(d, r) == IF Tiene(d, "Saldo total") THEN PctMora(r) ELSE Num(0)

\* The three "if column not in df_completo.columns" blocks.  They assign into
\* the caller's frame; a missing source column raises KeyError in the first
\* row that reads it, and what was assigned before stays assigned.
\* c, and the result: [df |-> the frame so far, ok |-> no KeyError so far]
CalcularRiesgoCapital(c) ==
    IF ~c.ok \/ Tiene(c.df, "Saldo riesgo capital") THEN c
    ELSE IF ~Tiene(c.df, "Saldo capital") /\ LeeSaldo(c.df)
    THEN [df |-> c.df, ok |-> FALSE]
    ELSE [df |-> Asignar(c.df, "Saldo riesgo capital",
                         LAMBDA r : SaldoRiesgo(r, "Saldo capital")),
          ok |-> TRUE]

CalcularRiesgoTotal(c) ==
    IF ~c.ok \/ Tiene(c.df, "Saldo riesgo total") THEN c
    ELSE IF ~Tiene(c.df, "Saldo total") /\ LeeSaldo(c.df)
    THEN [df |-> c.df, ok |-> FALSE]
    ELSE [df |-> Asignar(c.df, "Saldo riesgo total",
                         LAMBDA r : SaldoRiesgo(r, "Saldo total")),
          ok |-> TRUE]

CalcularPctMora(c) ==
    IF ~c.ok \/ Tiene(c.df, "% MORA") THEN c
    ELSE IF ~Tiene(c.df, "Saldo vencido") /\ LeeVencido(c.df)
    THEN [df |-> c.df, ok |-> FALSE]
    ELSE [df |-> Asignar(c.df, "% MORA", LAMBDA r : PctMoraGet(c.df, r)),
          ok |-> TRUE]

CalcularColumnasRiesgo(d) ==
    CalcularPctMora(CalcularRiesgoTotal(CalcularRiesgoCapital(
        [df |-> d, ok |-> TRUE])))

ColumnasSuma ==
    <<"Cantidad Prestada", "Saldo capital", "Saldo vencido", "Saldo total",
      "Saldo riesgo capital", "Saldo riesgo total">>

ColumnasRango ==
    <<"Rango_0", "Rango_1-7", "Rango_8-15", "Rango_16-30", "Rango_31-60",
      "Rango_61-90", "Rango_Mayor_90">>

\* the range of calcular_rangos_mora one row adds its risk balance to
RangoDeFila(r) ==
    LET dias_mora == fillna0(r.v["Dias de mora"])
    IN  IF EqK(dias_mora, 0) THEN "Rango_0"
        ELSE IF Ge(dias_mora, 1) /\ Le(dias_mora, 7) THEN "Rango_1-7"
        ELSE IF Ge(dias_mora, 8) /\ Le(dias_mora, 15) THEN "Rango_8-15"
        ELSE IF Ge(dias_mora, 16) /\ Le(dias_mora, 30) THEN "Rango_16-30"
        ELSE IF Ge(dias_mora, 31) /\ Le(dias_mora, 60) THEN "Rango_31-60"
        ELSE IF Ge(dias_mora, 61) /\ Le(dias_mora, 90) THEN "Rango_61-90"
        ELSE "Rango_Mayor_90"

\* calcular_rangos_mora(df_coord)[rango]
calcular_rangos_mora(filas, rango) ==
    SumaCeldas(Columna(SelectSeq(filas, LAMBDA r : RangoDeFila(r) = rango),
                       "Saldo riesgo total"))

\* sum(vencido) / sum(total) if sum(total) is not NaN and not 0 else 0
RazonMora(vencido, total) ==
    IF notna(total) /\ ~EqK(total, 0) THEN Div(vencido, total) ELSE Num(0)

\* (variant: the 'mean' of the aggregation is kept)
PctMoraGrupo_media(miembros) == Media(Columna(miembros, "% MORA"))

\* grupo['% MORA']: aggregated as 'mean', then overwritten per group row with
\* the ratio of the two sums
PctMoraGrupo(miembros) ==
    RazonMora(SumaCeldas(Columna(miembros, "Saldo vencido")),
              SumaCeldas(Columna(miembros, "Saldo total")))

\* One row of 'grupo': the key, the sums and the ratio over the members of
\* the group, the ranges over the rows 'de_rangos'
FilaGrupo(cs, k, miembros, de_rangos) ==
    [c \in Columnas([cols |-> cs \o ColumnasSuma \o <<"% MORA">> \o ColumnasRango]) |->
        IF \E j \in 1..Len(cs) : cs[j] = c
        THEN k[CHOOSE j \in 1..Len(cs) : cs[j] = c]
        ELSE IF c = "% MORA"
        THEN PctMoraGrupo(miembros)
        ELSE IF \E j \in 1..Len(ColumnasRango) : ColumnasRango[j] = c
        THEN calcular_rangos_mora(de_rangos, c)
        ELSE SumaCeldas(Columna(miembros, c))]

\* the grouped frame, given the sorted keys
GrupoDeClaves(d, cs, claves, DeRangos(_)) ==
    [cols  |-> cs \o ColumnasSuma \o <<"% MORA">> \o ColumnasRango,
     filas |-> [i \in 1..Len(claves) |->
                  [idx |-> i - 1,
                   v   |-> FilaGrupo(cs, claves[i], FilasGrupo(d, cs, claves[i]),
                                     DeRangos(claves[i]))]]]

\* The grouped frame 'grupo' with its Rango_ columns: one row per key of
\* d.groupby(cs, dropna=False), keys sorted.  DeRangos(k) are the rows the
\* function selects again, by comparison with the key, for the ranges.
Grupo(d, cs, DeRangos(_)) == GrupoDeClaves(d, cs, ClavesGrupo(d, cs), DeRangos)

\* sum of column c over the rows of 'grupo'
SumaGrupo(grupo, c) == SumaCeldas(Columna(grupo.filas, c))

\* total_general: the sums over the rows of 'grupo', the ratio recomputed
\* from them; Etiqueta gives the cells of the key columns
TotalGeneral(grupo, cs, Etiqueta(_)) ==
    [c \in Columnas(grupo) |->
        IF \E j \in 1..Len(cs) : cs[j] = c THEN Etiqueta(c)
        ELSE IF c = "% MORA"
        THEN IF ~EqK(SumaGrupo(grupo, "Saldo total"), 0)
             THEN Div(SumaGrupo(grupo, "Saldo vencido"), SumaGrupo(grupo, "Saldo total"))
             ELSE Num(0)
        ELSE SumaGrupo(grupo, c)]

\* pd.concat([df_resultado, fila_total], ignore_index=True)
ConTotal(grupo, total) ==
    [grupo EXCEPT !.filas = Append(grupo.filas,
                                   [idx |-> Len(grupo.filas), v |-> total])]

\* 'grupo' with the row of total_general under it
ConTotalGeneral(grupo, cs, Etiqueta(_)) ==
    ConTotal(grupo, TotalGeneral(grupo, cs, Etiqueta))

TextoTotal == Str(<<"T", "o", "t", "a", "l">>)

ColumnasRequeridas ==
    {"Coordinacion", "Cantidad Prestada", "Saldo capital", "Saldo vencido",
     "Saldo total", "Saldo riesgo capital", "Saldo riesgo total", "% MORA",
     "Dias de mora"}

\* df_completo[df_completo['Coordinacion'] == coord]: NaN equals nothing
FilasDeCoordinacion(d, k) ==
    SelectSeq(d.filas, LAMBDA r : notna(k[1]) /\ r.v["Coordinacion"] = k[1])

\* crear_hoja_x_coordinacion after the inline risk columns (calc)
TablaXCoordinacion(calc) ==
    IF ~calc.ok THEN [df |-> calc.df, tabla |-> DataFrameVacio, error |-> TRUE]
    ELSE IF ColumnasRequeridas \ Columnas(calc.df) # {}
    THEN [df |-> calc.df, tabla |-> DataFrameVacio, error |-> FALSE]
    ELSE [df |-> calc.df,
          tabla |-> ConTotalGeneral(
                        Grupo(calc.df, <<"Coordinacion">>,
                              LAMBDA k : FilasDeCoordinacion(calc.df, k)),
                        <<"Coordinacion">>, LAMBDA c : TextoTotal),
          error |-> FALSE]

\* [df |-> df_completo afterwards, tabla |-> the frame returned, error |-> raised]
crear_hoja_x_coordinacion(d_completo) ==
    TablaXCoordinacion(CalcularColumnasRiesgo(d_completo))

TextoNA == Str(<<"N", "/", "A">>)

ClavesRecuperador == <<"Coordinacion", "Codigo recuperador", "Nombre recuperador">>

\* df_completo = df_completo.copy(); df_completo[col] = 'N/A' for a collector
\* column the frame lacks: the dummy column goes into the copy
ConColumna(d, col) == IF Tiene(d, col) THEN d ELSE Asignar(d, col, LAMBDA r : TextoNA)

\* mask: the unit compared with ==, the collector keys NaN-aware
FilasDeRecuperador(d, k) ==
    SelectSeq(d.filas, LAMBDA r :
        /\ notna(k[1]) /\ r.v["Coordinacion"] = k[1]
        /\ r.v["Codigo recuperador"] = k[2]
        /\ r.v["Nombre recuperador"] = k[3])

EtiquetaTotalRecuperador(c) == IF c = "Coordinacion" THEN TextoTotal ELSE Str(<<>>)

\* the table of crear_hoja_x_recuperador over the copy with collector columns
GrupoRecuperador(d_rec) ==
    ConTotalGeneral(
        Grupo(d_rec, ClavesRecuperador, LAMBDA k : FilasDeRecuperador(d_rec, k)),
        ClavesRecuperador, EtiquetaTotalRecuperador)

\* crear_hoja_x_recuperador after the inline risk columns (calc)
TablaXRecuperador(calc) ==
    IF ~calc.ok THEN [df |-> calc.df, tabla |-> DataFrameVacio, error |-> TRUE]
    ELSE IF ColumnasRequeridas \ Columnas(calc.df) # {}
    THEN [df |-> calc.df, tabla |-> DataFrameVacio, error |-> FALSE]
    ELSE [df |-> calc.df,
          tabla |-> GrupoRecuperador(
                        ConColumna(ConColumna(calc.df, "Codigo recuperador"),
                                   "Nombre recuperador")),
          error |-> FALSE]

crear_hoja_x_recuperador(d_completo) ==
    TablaXRecuperador(CalcularColumnasRiesgo(d_completo))

-----------------------------------------------------------------------------
(* Configuration of the run and names                                      *)

MAX_FILE_SIZE == 16 * 1024 * 1024

\* the report date as strftime("%d%m%Y") renders it; it names the full ledger
\* sheet and the output file
fecha_actual == <<"0", "3", "1", "1", "2", "0", "2", "6">>

ruta_salida ==
    <<"u", "p", "l", "o", "a", "d", "s", "/">> \o <<"R", "e", "p", "o", "r", "t", "e", "d", "e", "A", "n", "t", "i", "g", "u", "e", "d", "a", "d", "_">> \o fecha_actual \o <<".", "x", "l", "s", "x">>

\* datetime.now() of an invocation, within November 2026: the day of the month
\* and the hour.  weekday() is 0 on Monday; 2 November 2026 is a Monday.
weekday(hoy) == (hoy.dia - 2) % 7

\* hoy - timedelta(days=3) on Monday, hoy - timedelta(days=1) otherwise
FechaReporte(hoy) ==
    IF weekday(hoy) = 0 THEN [hoy EXCEPT !.dia = hoy.dia - 3]
    ELSE [hoy EXCEPT !.dia = hoy.dia - 1]

\* strftime("%d%m%Y")
strftime(fecha) ==
    zfill(NatToStr(fecha.dia), 2) \o <<"1", "1", "2", "0", "2", "6">>

\* os.path.join('uploads', f'ReportedeAntiguedad_{fecha_actual}.xlsx')
RutaSalidaDe(hoy) ==
    <<"u", "p", "l", "o", "a", "d", "s", "/">> \o <<"R", "e", "p", "o", "r", "t", "e", "d", "e", "A", "n", "t", "i", "g", "u", "e", "d", "a", "d", "_">> \o strftime(FechaReporte(hoy)) \o <<".", "x", "l", "s", "x">>

HOJA_X_COORDINACION == <<"X", "_", "C", "o", "o", "r", "d", "i", "n", "a", "c", "i", "o", "n">>
HOJA_X_RECUPERADOR == <<"X", "_", "R", "e", "c", "u", "p", "e", "r", "a", "d", "o", "r">>
HOJA_MORA == <<"M", "o", "r", "a">>
HOJA_SALDO_VENCIDO == <<"C", "u", "e", "n", "t", "a", "s", " ", "c", "o", "n", " ", "s", "a", "l", "d", "o", " ", "v", "e", "n", "c", "i", "d", "o">>
HOJA_LIQUIDACION == <<"L", "i", "q", "u", "i", "d", "a", "c", "i", "o", "n", " ", "a", "n", "t", "i", "c", "i", "p", "a", "d", "a">>
HOJA_TEMP == <<"_", "t", "e", "m", "p">>

PREFIJO_LECTURA ==
    "Error al leer el archivo Excel. Verifique que sea un archivo valido: "
PREFIJO_INESPERADO == "Error inesperado procesando archivo: "

\* the four codes the route passes when collaborators are reported apart
CODIGOS_COLABORADORES ==
    <<Str(<<"0", "0", "1", "0", "5", "3">>), Str(<<"0", "0", "1", "1", "4", "5">>), Num(1053), Num(1145)>>

-----------------------------------------------------------------------------
(* The workbooks, templates and failures the runs are started with          *)

\* rows of one workbook at most
MaxFilas == 3
\* rows of a workbook of the runs that vary the header, the size, the
\* template or the failing presentation step
MaxFilasControl == 1

EncabezadoCompleto ==
    <<"Codigo acreditado", "Ciclo", "Coordinacion", "Forma de entrega",
      "Codigo recuperador", "Nombre recuperador", "Dias de mora",
      "Cantidad Prestada", "Saldo capital", "Saldo vencido", "Saldo total">>

EncabezadoSinVencido ==
    <<"Codigo acreditado", "Ciclo", "Coordinacion", "Dias de mora",
      "Cantidad Prestada", "Saldo capital", "Saldo total">>

EncabezadoSinCoordinacion ==
    <<"Codigo acreditado", "Ciclo", "Dias de mora", "Cantidad Prestada",
      "Saldo capital", "Saldo vencido", "Saldo total">>

EncabezadoSinCodigo ==
    <<"Ciclo", "Coordinacion", "Dias de mora", "Cantidad Prestada",
      "Saldo capital", "Saldo vencido", "Saldo total">>

Fila(codigo, ciclo, coord, crec, nrec, mora, prestada, capital, vencido, total) ==
    [c \in Columnas([cols |-> EncabezadoCompleto]) |->
        CASE c = "Codigo acreditado"  -> codigo
          [] c = "Ciclo"              -> ciclo
          [] c = "Coordinacion"       -> coord
          [] c = "Forma de entrega"   -> Str(<<"E">>)
          [] c = "Codigo recuperador" -> crec
          [] c = "Nombre recuperador" -> nrec
          [] c = "Dias de mora"       -> mora
          [] c = "Cantidad Prestada"  -> prestada
          [] c = "Saldo capital"      -> capital
          [] c = "Saldo vencido"      -> vencido
          [] c = "Saldo total"        -> total]

Norte == Str(<<"N">>)
Sur == Str(<<"S">>)
Rosa == Str(<<"R">>)
Tere == Str(<<"T">>)

\* the data rows the workbooks are made of
FilasEjemplo ==
    << Fila(Num(1004), Num(1), Norte, Num(7), Rosa, Num(45),
            Num(5), Num(2), Num(1), Num(2)),
       Fila(Num(1004), Num(2), Norte, Num(7), Rosa, Num(0),
            Num(5), Num(3), Num(0), Num(4)),
       Fila(Num(1041), Num(1), Norte, Num(7), Rosa, Num(10),
            Num(1), Num(1), Num(1), Num(1)),
       Fila(Str(<<"1", "0", "4", "1">>), Num(1), Sur, NaN, NaN, Num(100),
            Num(2), Num(2), Num(2), Num(2)),
       Fila(Num(1053), Num(1), Sur, Num(8), Tere, Num(0),
            Num(3), Num(1), Num(2), Num(3)),
       Fila(Str(<<"1", "0", "5", "3">>), Num(3), Sur, NaN, NaN, NaN,
            Num(1), Num(1), Num(0), Num(0)),
       Fila(Str(<<"0", "0", "1", "0", "5", "3">>), Num(1), NaN, Num(7), Rosa, Num(-1),
            Num(1), Num(1), Num(1), NaN),
       Fila(Str(<<"a", "b", "c">>), NaN, Norte, Num(8), Tere, Q(15, 2),
            Num(4), Num(4), Num(1), Num(4)),
       Fila(Num(2000), Num(1), NaN, Num(7), Rosa, Num(20),
            Num(6), Num(6), Num(3), Num(6)) >>

\* the workbooks of at most n data rows
Filas(n) ==
    UNION {{[i \in 1..k |-> FilasEjemplo[f[i]]] :
                f \in [1..k -> 1..Len(FilasEjemplo)]} : k \in 0..n}

\* the names of derived columns an uploaded workbook may already carry
NombresDerivados ==
    {"PAR", "Concepto Deposito", "Saldo riesgo capital", "Saldo riesgo total",
     "% MORA"}

\* the complete header followed by one more column
EncabezadoCon(c) == Append(EncabezadoCompleto, c)

\* the rows fs with the cell 'valor' in the additional column c
FilasCon(fs, c, valor) ==
    [i \in 1..Len(fs) |->
        [k \in DOMAIN fs[i] \cup {c} |-> IF k = c THEN valor ELSE fs[i][k]]]

\* a workbook of two units whose names differ in a hyphen and an underscore
FilasDeUnidadesParecidas ==
    << Fila(Num(3001), Num(1), Str(<<"A", "-", "B">>), Num(7), Rosa, Num(12),
            Num(2), Num(2), Num(1), Num(2)),
       Fila(Num(3002), Num(1), Str(<<"A", "_", "B">>), Num(7), Rosa, Num(3),
            Num(1), Num(1), Num(1), Num(1)) >>

\* the places (0-based) of the address column in the header of a workbook that
\* has one: first, just before the arrears-days column, just after it, last
LugaresGeo == {0, 6, 7, 11}

EncabezadoConGeo(lugar) ==
    InsertarEn(EncabezadoCompleto, lugar, columna_geolocalizacion)

\* the address cells: none, a pair of decimal coordinates, a free text
GeoEjemplo == {NaN, Str(<<"1", ",", "2">>), Str(<<"x">>)}

Listas == {<<>>, CODIGOS_COLABORADORES}

SinPlantilla == [existe |-> FALSE, hojas |-> <<>>]

Plantillas ==
    {[existe |-> TRUE, hojas |-> <<<<"H", "o", "j", "a", "1">>>>],
     [existe |-> TRUE, hojas |-> <<<<"H", "o", "j", "a", "1">>, <<"D", "e", "t", "a", "i", "l">>>>]}

SinFallo == [hoja |-> "ninguna", paso |-> "ninguno"]

\* the file at ruta_salida: whether it exists, the sheets it holds, whether it
\* holds the VBA project, and whether ruta_salida + ".tmp" exists beside it
SinSalida ==
    [existe |-> FALSE, hojas |-> <<>>, macros |-> FALSE, temporal |-> FALSE,
     miembros |-> <<>>]

\* The members of a workbook archive are named by a part and a number
CONTENT_TYPES == <<"[Content_Types].xml", 0>>
PARTE_LIBRO == <<"xl/workbook.xml", 0>>
VBA_PROJECT == <<"xl/vbaProject.bin", 0>>
ParteHoja(i) == <<"xl/worksheets/sheet.xml", i>>

\* a member: its name and its bytes, which are told apart by the workbook
\* they were written for and, for [Content_Types].xml, the parts registered
Miembro(nombre, de, tipos) ==
    [nombre |-> nombre, datos |-> [de |-> de, tipos |-> tipos]]

\* namelist() of the archive openpyxl saves for a workbook of num_hojas
\* sheets, with the VBA project when the workbook was loaded with keep_vba
ArchivoDe(de, num_hojas, vba) ==
    LET partes == {PARTE_LIBRO} \cup {ParteHoja(i) : i \in 1..num_hojas}
                  \cup (IF vba THEN {VBA_PROJECT} ELSE {})
    IN  <<Miembro(CONTENT_TYPES, de, partes), Miembro(PARTE_LIBRO, de, {})>>
        \o [i \in 1..num_hojas |-> Miembro(ParteHoja(i), de, {})]
        \o (IF vba THEN <<Miembro(VBA_PROJECT, de, {})>> ELSE <<>>)

\* the file at ruta_salida once the writer (which loads the workbook without
\* keep_vba) has saved the sheets 'hojas'
Guardado(s, hojas) ==
    [s EXCEPT !.hojas = hojas,
              !.miembros = ArchivoDe("generado", Len(hojas), FALSE)]

\* the presentation steps of each kind of sheet, in the order they run
PasosDe(hoja) ==
    CASE hoja \in {"informe", "mora", "unidad"} -> <<"condicional", "tabla", "final">>
      [] hoja = "saldo_vencido"                 -> <<"tabla", "final">>
      [] OTHER                                  -> <<"diseno">>

ClasesDeHoja ==
    {"x_coordinacion", "x_recuperador", "informe", "mora", "saldo_vencido",
     "liquidacion", "unidad"}

Fallos ==
    {[hoja |-> h, paso |-> p] :
        h \in ClasesDeHoja,
        p \in {"condicional", "tabla", "final", "diseno"}}

FallosPosibles ==
    {f \in Fallos : \E i \in 1..Len(PasosDe(f.hoja)) : PasosDe(f.hoja)[i] = f.paso}

\* what can raise in PASO 7: shutil.copy(ruta_salida, archivo_temp), opening
\* the example archive, and zip_final.writestr in the loop that copies the
\* members of the generated archive
FallosMacros ==
    {[hoja |-> "macros", paso |-> p] : p \in {"copy", "zip_ejemplo", "writestr"}}

-----------------------------------------------------------------------------
(* procesar_reporte_antiguedad: helpers of the steps                       *)

entrada == <<archivo, codigos_a_excluir, plantilla, fallo, llamada, ret>>

SinResultado ==
    [t |-> "ninguno", prefijo |-> "", causa |-> "", detalle |-> <<>>,
     ruta |-> <<>>, num |-> 0]

\* raise Exception(prefijo + str(e))
Error(prefijo, causa, detalle) ==
    [t |-> "error", prefijo |-> prefijo, causa |-> causa, detalle |-> detalle,
     ruta |-> <<>>, num |-> 0]

\* return ruta_salida, len(coordinaciones_data)
Retorno(n) ==
    [t |-> "ok", prefijo |-> "", causa |-> "", detalle |-> <<>>,
     ruta |-> ruta_salida, num |-> n]

\* pd.read_excel(header=0): the header row names the columns, the data rows
\* get the labels 0, 1, 2, ...  (the headers of the modelled workbooks hold no
\* newline and no surrounding blank, so clean_dataframe_columns keeps them)
read_excel(a) ==
    [cols  |-> a.encabezados,
     filas |-> [i \in 1..Len(a.filas) |->
                  [idx |-> i - 1,
                   v   |-> [c \in Columnas([cols |-> a.encabezados]) |->
                               a.filas[i][c]]]]]

\* Series.isin(values) of one cell: equal value and equal kind (a number never
\* equals a text)
isin(c, values) == \E i \in 1..Len(values) : values[i] = c

RECURSIVE standardize_codes(_, _)
standardize_codes(d, code_columns) ==
    IF Len(code_columns) = 0 THEN d
    ELSE LET col == Head(code_columns)
             hecho == IF Tiene(d, col)
                      THEN Asignar(d, col, LAMBDA r : CodigoEstandar(r.v[col], 6))
                      ELSE d
         IN  standardize_codes(hecho, Tail(code_columns))

EsTelefono(c) ==
    c \in {"Telefono conyuge", "Telefono Referencia1", "Telefono Referencia2",
           "Telefono Referencia3"}

\* df[col].fillna('').astype(str) for every column whose name holds 'Telefono'
RECURSIVE LimpiarTelefonos(_, _)
LimpiarTelefonos(d, cs) ==
    IF Len(cs) = 0 THEN d
    ELSE LET col == Head(cs)
             hecho == IF EsTelefono(col)
                      THEN Asignar(d, col, LAMBDA r :
                               IF isna(r.v[col]) THEN Str(<<>>)
                               ELSE Str(astype_str(r.v[col])))
                      ELSE d
         IN  LimpiarTelefonos(hecho, Tail(cs))

clean_phone_numbers(d) == LimpiarTelefonos(d, d.cols)

\* df[columnas]: every column of each listed name, in the order listed
RECURSIVE Seleccionar(_, _)
Seleccionar(d, columnas) ==
    IF Len(columnas) = 0 THEN [d EXCEPT !.cols = <<>>]
    ELSE LET resto == Seleccionar(d, Tail(columnas))
         IN  [d EXCEPT !.cols =
                 SelectSeq(d.cols, LAMBDA c : c = Head(columnas)) \o resto.cols]

\* columnas.remove(c); columnas.insert(0, c)
AlInicio(columnas, c) ==
    LET i == CHOOSE j \in 1..Len(columnas) :
                 columnas[j] = c /\ \A k \in 1..(j - 1) : columnas[k] # c
    IN  <<c>> \o SubSeq(columnas, 1, i - 1) \o SubSeq(columnas, i + 1, Len(columnas))

\* coord_name.replace(' ', '_')[:31]
NombreHoja(coord_name) ==
    LET s == [i \in 1..Len(coord_name) |->
                 IF coord_name[i] = " " THEN "_" ELSE coord_name[i]]
    IN  IF Len(s) > 31 THEN SubSeq(s, 1, 31) ELSE s

mapeo_rangos(c) ==
    CASE c = "Rango_0"        -> "0"
      [] c = "Rango_1-7"      -> "1-7 dias"
      [] c = "Rango_8-15"     -> "8-15 dias"
      [] c = "Rango_16-30"    -> "16-30 dias"
      [] c = "Rango_31-60"    -> "31-60 dias"
      [] c = "Rango_61-90"    -> "61-90 dias"
      [] c = "Rango_Mayor_90" -> "Mayor_90"
      [] OTHER                -> c

\* df.rename(columns=mapeo_rangos)
RenombrarRangos(d) ==
    [cols  |-> [i \in 1..Len(d.cols) |-> mapeo_rangos(d.cols[i])],
     filas |-> [i \in 1..Len(d.filas) |->
                  [idx |-> d.filas[i].idx,
                   v   |-> [c \in {mapeo_rangos(k) : k \in DOMAIN d.filas[i].v} |->
                               d.filas[i].v[CHOOSE k \in DOMAIN d.filas[i].v :
                                                mapeo_rangos(k) = c]]]]]

liquidacion_columns ==
    <<"Codigo acreditado", "Ciclo", "Nombre del acreditado",
      "Saldo interes vencido", "Saldo comision vencida", "Saldo recargos",
      "Saldo capital", "Saldo adelantado",
      "Intereses del proximo pago sin vencer",
      "Comisiones del proximo pago sin vencer", "Cantidad a liquidar",
      "Calculo valido hasta el proximo pago">>

\* pd.DataFrame(columns=liquidacion_columns) with df.loc[0] = [''] * 12
df_liquidacion ==
    [cols  |-> liquidacion_columns,
     filas |-> <<[idx |-> 0,
                  v   |-> [c \in Columnas([cols |-> liquidacion_columns]) |->
                              Str(<<>>)]]>>]

\* openpyxl.utils.get_column_letter(n)
Letras ==
    <<"A", "B", "C", "D", "E", "F", "G", "H", "I", "J", "K", "L", "M", "N", "O",
      "P", "Q", "R", "S", "T", "U", "V", "W", "X", "Y", "Z">>

RECURSIVE get_column_letter(_)
get_column_letter(n) ==
    IF n <= 26 THEN <<Letras[n]>>
    ELSE get_column_letter((n - 1) \div 26) \o <<Letras[((n - 1) % 26) + 1]>>

\* columnas_requeridas and mapeo_manual: per key, the header asked for, the
\* fixed position of mapeo_manual, the column of row 3 that gets the formula
\* and what the cell falls back to
CamposLiquidacion ==
    <<[key |-> "ciclo", requerida |-> "Ciclo", posicion |-> 7,
       celda |-> "Ciclo", defecto |-> <<"\"", "\"">>],
      [key |-> "nombre_acreditado", requerida |-> "Nombre acreditado", posicion |-> 8,
       celda |-> "Nombre del acreditado", defecto |-> <<"\"", "\"">>],
      [key |-> "intereses_vencidos", requerida |-> "Saldo interes vencido", posicion |-> 25,
       celda |-> "Saldo interes vencido", defecto |-> <<"0">>],
      [key |-> "comision_vencida", requerida |-> "Saldo comision vencida", posicion |-> 26,
       celda |-> "Saldo comision vencida", defecto |-> <<"0">>],
      [key |-> "recargos", requerida |-> "Saldo recargos", posicion |-> 27,
       celda |-> "Saldo recargos", defecto |-> <<"0">>],
      [key |-> "saldo_capital", requerida |-> "Saldo capital", posicion |-> 22,
       celda |-> "Saldo capital", defecto |-> <<"0">>]>>

\* col.lower().replace(' ', '') with the accents replaced, for the headers
\* of the modelled workbooks
NombreLimpio(c) ==
    CASE c = "Codigo acreditado" -> <<"c", "o", "d", "i", "g", "o", "a", "c", "r", "e", "d", "i", "t", "a", "d", "o">>
      [] c = "Ciclo" -> <<"c", "i", "c", "l", "o">>
      [] c = "Coordinacion" -> <<"c", "o", "o", "r", "d", "i", "n", "a", "c", "i", "o", "n">>
      [] c = "Forma de entrega" -> <<"f", "o", "r", "m", "a", "d", "e", "e", "n", "t", "r", "e", "g", "a">>
      [] c = "Codigo recuperador" -> <<"c", "o", "d", "i", "g", "o", "r", "e", "c", "u", "p", "e", "r", "a", "d", "o", "r">>
      [] c = "Nombre recuperador" -> <<"n", "o", "m", "b", "r", "e", "r", "e", "c", "u", "p", "e", "r", "a", "d", "o", "r">>
      [] c = "Dias de mora" -> <<"d", "i", "a", "s", "d", "e", "m", "o", "r", "a">>
      [] c = "Cantidad Prestada" -> <<"c", "a", "n", "t", "i", "d", "a", "d", "p", "r", "e", "s", "t", "a", "d", "a">>
      [] c = "Saldo capital" -> <<"s", "a", "l", "d", "o", "c", "a", "p", "i", "t", "a", "l">>
      [] c = "Saldo vencido" -> <<"s", "a", "l", "d", "o", "v", "e", "n", "c", "i", "d", "o">>
      [] c = "Saldo total" -> <<"s", "a", "l", "d", "o", "t", "o", "t", "a", "l">>
      [] c = "PAR" -> <<"p", "a", "r">>
      [] c = "Saldo riesgo capital" -> <<"s", "a", "l", "d", "o", "r", "i", "e", "s", "g", "o", "c", "a", "p", "i", "t", "a", "l">>
      [] c = "Saldo riesgo total" -> <<"s", "a", "l", "d", "o", "r", "i", "e", "s", "g", "o", "t", "o", "t", "a", "l">>
      [] c = "% MORA" -> <<"%", "m", "o", "r", "a">>
      [] c = "Nombre acreditado" -> <<"n", "o", "m", "b", "r", "e", "a", "c", "r", "e", "d", "i", "t", "a", "d", "o">>
      [] c = "Saldo interes vencido" -> <<"s", "a", "l", "d", "o", "i", "n", "t", "e", "r", "e", "s", "v", "e", "n", "c", "i", "d", "o">>
      [] c = "Saldo comision vencida" -> <<"s", "a", "l", "d", "o", "c", "o", "m", "i", "s", "i", "o", "n", "v", "e", "n", "c", "i", "d", "a">>
      [] c = "Geolocalizacion domicilio" -> <<"g", "e", "o", "l", "o", "c", "a", "l", "i", "z", "a", "c", "i", "o", "n", "d", "o", "m", "i", "c", "i", "l", "i", "o">>
      [] c = "Link de Geolocalizacion" -> <<"l", "i", "n", "k", "d", "e", "g", "e", "o", "l", "o", "c", "a", "l", "i", "z", "a", "c", "i", "o", "n">>
      [] c = "link_texto" -> <<"l", "i", "n", "k", "_", "t", "e", "x", "t", "o">>
      [] c = "link_url" -> <<"l", "i", "n", "k", "_", "u", "r", "l">>
      [] c = "Concepto Deposito" -> <<"c", "o", "n", "c", "e", "p", "t", "o", "d", "e", "p", "o", "s", "i", "t", "o">>
      [] c = "Saldo recargos" -> <<"s", "a", "l", "d", "o", "r", "e", "c", "a", "r", "g", "o", "s">>

\* buscar_columna_similar(columna_requerida, columnas_disponibles): the first
\* column whose clean name equals, holds or is held by the clean name asked
\* for; "" stands for None
Similar(requerida, c) ==
    \/ Contiene(NombreLimpio(c), NombreLimpio(requerida))
    \/ Contiene(NombreLimpio(requerida), NombreLimpio(c))

buscar_columna_similar(requerida, cols) ==
    IF \E i \in 1..Len(cols) : Similar(requerida, cols[i])
    THEN cols[CHOOSE i \in 1..Len(cols) :
                 /\ Similar(requerida, cols[i])
                 /\ \A j \in 1..(i - 1) : ~Similar(requerida, cols[j])]
    ELSE ""

\* columnas_mapeadas[key]: the column at the fixed position when the frame
\* is that wide, else the header itself, else a similar one
columna_mapeada(d, campo) ==
    IF Len(d.cols) > campo.posicion THEN d.cols[campo.posicion + 1]
    ELSE IF Tiene(d, campo.requerida) THEN campo.requerida
    ELSE buscar_columna_similar(campo.requerida, d.cols)

\* =IFERROR(VLOOKUP(A3,'{hoja}'!$A:{hasta},{indice},FALSE),{defecto})
Formula(hoja, hasta, indice, defecto) ==
    [t |-> "formula", clave |-> <<"A", "3">>, hoja |-> hoja, desde |-> <<"A">>,
     hasta |-> hasta, indice |-> indice, defecto |-> defecto]

\* the cell of row 3 for one key: the lookup, its index taken from
\* d_completo.columns, or the literal when no column was mapped
FormulaDeCampo(d_completo, campo) ==
    IF columna_mapeada(d_completo, campo) = "" THEN Str(campo.defecto)
    ELSE Formula(fecha_actual, get_column_letter(Len(d_completo.cols)),
                 get_loc(d_completo, columna_mapeada(d_completo, campo)) + 1,
                 campo.defecto)

\* row 3 of the sheet: B3..G3 by key, H3 with the fixed index 52, K3 the sum
Fila3(d_completo, c) ==
    IF \E i \in 1..Len(CamposLiquidacion) : CamposLiquidacion[i].celda = c
    THEN FormulaDeCampo(d_completo,
             CamposLiquidacion[CHOOSE i \in 1..Len(CamposLiquidacion) :
                                   CamposLiquidacion[i].celda = c])
    ELSE IF c = "Saldo adelantado"
    THEN Formula(fecha_actual, get_column_letter(Len(d_completo.cols)), 52, <<"0">>)
    ELSE IF c = "Cantidad a liquidar"
    THEN Str(<<"=", "S", "U", "M", "(", "D", "3", ":", "G", "3", ",", "I", "3", ":", "J", "3", ")", "-", "H", "3">>)
    ELSE Str(<<>>)

\* the sheet after the formulas of section 6 and 7 were put in row 3
hoja_liquidacion(d_completo) ==
    [df_liquidacion EXCEPT
        !.filas = <<[idx |-> 0,
                     v   |-> [c \in Columnas(df_liquidacion) |->
                                 Fila3(d_completo, c)]]>>]

\* config.ADDITIONAL_COLUMNS: the manual-capture headers of the sheet 'Mora'
ADDITIONAL_COLUMNS ==
    [count   |-> 9,
     headers |-> <<"Estatus de llamada (pago del dia o mora)",
                   "Fecha del acuerdo de pago",
                   "Horario del acuerdo de pago",
                   "Monto del acuerdo",
                   "Dia de visita de cobranza en campo",
                   "Fecha del acuerdo de pago",
                   "Horario del acuerdo de pago",
                   "Monto del acuerdo",
                   "Monto del acuerdo">>]

\* [a-zA-Z]
EsLetra(ch) ==
    ch \in {"A", "B", "C", "D", "E", "F", "G", "H", "I", "J", "K", "L", "M", "N",
            "O", "P", "Q", "R", "S", "T", "U", "V", "W", "X", "Y", "Z",
            "a", "b", "c", "d", "e", "f", "g", "h", "i", "j", "k", "l", "m", "n",
            "o", "p", "q", "r", "s", "t", "u", "v", "w", "x", "y", "z"}

\* a character the pattern [^a-zA-Z0-9_.] does not match
EsDeNombre(ch) == EsLetra(ch) \/ EsDigito(ch) \/ ch \in {"_", "."}

T_Table == <<"T", "_", "T", "a", "b", "l", "e">>

\* (variant: no prefix is put before a name that starts with a digit)
generate_valid_table_name_sin_prefijo(sheet_name) ==
    LET reemplazado == [i \in 1..Len(sheet_name) |->
                           IF sheet_name[i] \in {" ", "-"} THEN "_" ELSE sheet_name[i]]
        limpio == SelectSeq(reemplazado, EsDeNombre)
        clean_name ==
            IF Len(limpio) > 0 /\ EsDigito(limpio[1]) THEN limpio
            ELSE IF Len(limpio) = 0 THEN T_Table
            ELSE IF ~EsLetra(limpio[1]) THEN <<"T", "_">> \o limpio
            ELSE limpio
    IN  IF Len(clean_name) > 255 THEN SubSeq(clean_name, 1, 255) ELSE clean_name

generate_valid_table_name(sheet_name) ==
    LET reemplazado == [i \in 1..Len(sheet_name) |->
                           IF sheet_name[i] \in {" ", "-"} THEN "_" ELSE sheet_name[i]]
        limpio == SelectSeq(reemplazado, EsDeNombre)
        clean_name ==
            IF Len(limpio) > 0 /\ EsDigito(limpio[1]) THEN <<"T", "_">> \o limpio
            ELSE IF Len(limpio) = 0 THEN T_Table
            ELSE IF ~EsLetra(limpio[1]) THEN <<"T", "_">> \o limpio
            ELSE limpio
    IN  IF Len(clean_name) > 255 THEN SubSeq(clean_name, 1, 255) ELSE clean_name

\* a sheet without a table object
SinTabla == [existe |-> FALSE, displayName |-> <<>>, col_inicio |-> 0,
             col_fin |-> 0, fila_inicio |-> 0, fila_fin |-> 0]

\* crear_tabla_excel(worksheet, df, sheet_name, incluir_columnas_adicionales)
\* on a sheet written with startrow=1: the cells of row 2 (the headers that
\* to_excel wrote, then the nine manual-capture headers when they are
\* included) and the Table added, with ref "A2:<last column><len(df) + 2>"
crear_tabla_excel(d, sheet_name, incluir_columnas_adicionales) ==
    LET num_columnas_originales == Len(d.cols)
        num_columnas_totales == num_columnas_originales + 9
    IN  [fila2 |-> IF incluir_columnas_adicionales
                   THEN d.cols \o ADDITIONAL_COLUMNS.headers ELSE d.cols,
         tabla |-> [existe      |-> TRUE,
                    displayName |-> generate_valid_table_name(sheet_name),
                    col_inicio  |-> 1,
                    col_fin     |-> IF incluir_columnas_adicionales
                                    THEN num_columnas_totales
                                    ELSE num_columnas_originales,
                    fila_inicio |-> 2,
                    fila_fin    |-> Len(d.filas) + 2]]

\* A sheet of the workbook: the kind of sheet, what to_excel wrote, the
\* presentation steps that completed on it, the cells of its header row and
\* its table object.
Hoja(clase, nombre, datos, startrow, pasos) ==
    LET con_tabla == \E i \in 1..Len(pasos) : pasos[i] = "tabla"
        hecho == crear_tabla_excel(datos, nombre, clase = "mora")
    IN  [clase |-> clase, nombre |-> nombre, datos |-> datos, startrow |-> startrow,
         pasos |-> pasos,
         fila2 |-> IF con_tabla THEN hecho.fila2 ELSE datos.cols,
         tabla |-> IF con_tabla THEN hecho.tabla ELSE SinTabla]

\* to_excel on the writer's workbook: a new sheet goes last; a sheet of the
\* same name is replaced (mode 'a', if_sheet_exists='replace') or written
\* over (mode 'w') in its place
to_excel(lib, hoja) ==
    IF \E i \in 1..Len(lib) : lib[i].nombre = hoja.nombre
    THEN [i \in 1..Len(lib) |-> IF lib[i].nombre = hoja.nombre THEN hoja ELSE lib[i]]
    ELSE Append(lib, hoja)

\* the presentation step of a sheet of class 'clase' that raises now, if any
FallaEn(clase) ==
    IF fallo.hoja = clase /\ (clase # "unidad" \/ fallos = <<>>)
    THEN fallo.paso ELSE "ninguno"

\* crear_tabla_excel catches what it raises; nothing else is caught
Capturado(paso) == paso = "tabla"

\* the steps of PasosDe(clase) that complete when 'falla' raises: all but a
\* caught one, or those before an uncaught one
PasosHechos(clase, falla) ==
    LET pasos == PasosDe(clase)
        pos == IF \E i \in 1..Len(pasos) : pasos[i] = falla
               THEN CHOOSE i \in 1..Len(pasos) : pasos[i] = falla ELSE 0
    IN  IF pos = 0 THEN pasos
        ELSE IF Capturado(falla)
        THEN SelectSeq(pasos, LAMBDA p : p # falla)
        ELSE SubSeq(pasos, 1, pos - 1)

\* aplicar_formato_condicional(worksheet, columna_mora, num_filas) adds the
\* rule on the range "<col>3:<col>{num_filas + 2}".  With num_filas = 0 the
\* range ends above its start: openpyxl builds that validate the bounds of a
\* cell range raise on it, the others accept it.
FallasDe(clase, num_filas) ==
    {FallaEn(clase)}
    \cup IF num_filas = 0 /\ \E i \in 1..Len(PasosDe(clase)) :
                                  PasosDe(clase)[i] = "condicional"
         THEN {"condicional"} ELSE {}

\* worksheet.add_table(tabla) for a displayName that a table of another
\* sheet of the workbook has: openpyxl from 3.0.4 on raises ValueError
\* ("Table with name ... already exists"), earlier versions add the table.
TablaRechazada(clase, nombre) ==
    IF /\ \E i \in 1..Len(PasosDe(clase)) : PasosDe(clase)[i] = "tabla"
       /\ \E k \in 1..Len(libro) :
             /\ libro[k].nombre # nombre
             /\ libro[k].tabla.existe
             /\ libro[k].tabla.displayName = generate_valid_table_name(nombre)
    THEN {"tabla"} ELSE {}

\* One sheet inside "with writer": to_excel, then its presentation steps.  An
\* uncaught failure leaves the with-block: ExcelWriter.__exit__ saves the
\* workbook as it is, and the handler's "except Exception" re-raises.
EscribirHoja(clase, nombre, datos, startrow, num_filas, siguiente) ==
    \E falla \in FallasDe(clase, num_filas) \cup TablaRechazada(clase, nombre) :
    LET hoja == Hoja(clase, nombre, datos, startrow, PasosHechos(clase, falla))
    IN  /\ libro' = to_excel(libro, hoja)
        /\ fallos' = IF falla = "ninguno" THEN fallos
                     ELSE Append(fallos, [hoja |-> nombre, paso |-> falla])
        /\ IF falla # "ninguno" /\ ~Capturado(falla)
           THEN /\ salida' = Guardado(salida, libro')
                /\ resultado' = Error(PREFIJO_INESPERADO, falla, <<>>)
                /\ pc' = "fin"
           ELSE /\ pc' = siguiente
                /\ UNCHANGED <<salida, resultado>>

-----------------------------------------------------------------------------
(* procesar_reporte_antiguedad(archivo_path, codigos_a_excluir)            *)

InitCon(tamano, encabezados, filas, lista, plant, fl) ==
    /\ pc = "validar_archivo"
    /\ archivo = [tamano |-> tamano, encabezados |-> encabezados, filas |-> filas]
    /\ codigos_a_excluir = lista
    /\ plantilla = plant
    /\ fallo = fl
    /\ df = NoDF
    /\ df_filtrado = NoDF
    /\ df_completo = NoDF
    /\ df_completo_sin_links = NoDF
    /\ df_ordenado = NoDF
    /\ df_mora = NoDF
    /\ df_saldo_vencido = NoDF
    /\ coordinaciones_data = <<>>
    /\ pendientes = <<>>
    /\ libro = <<>>
    /\ salida = SinSalida
    /\ fallos = <<>>
    /\ resultado = SinResultado
    /\ llamada = [fn |-> "ninguna", arg |-> NaN]
    /\ ret = NaN

Init ==
    \/ \E f \in Filas(MaxFilas), l \in Listas :
          InitCon(1, EncabezadoCompleto, f, l, SinPlantilla, SinFallo)
    \/ \E e \in {EncabezadoSinVencido, EncabezadoSinCoordinacion, EncabezadoSinCodigo},
          f \in Filas(MaxFilasControl), l \in Listas :
          InitCon(1, e, f, l, SinPlantilla, SinFallo)
    \/ \E t \in {MAX_FILE_SIZE, MAX_FILE_SIZE + 1}, f \in Filas(MaxFilasControl) :
          InitCon(t, EncabezadoCompleto, f, <<>>, SinPlantilla, SinFallo)
    \/ \E p \in Plantillas, f \in Filas(MaxFilasControl) :
          InitCon(1, EncabezadoCompleto, f, <<>>, p, SinFallo)
    \/ \E fl \in FallosPosibles, f \in Filas(MaxFilasControl) :
          InitCon(1, EncabezadoCompleto, f, <<>>, SinPlantilla, fl)
    \/ \E p \in Plantillas, fl \in FallosMacros, f \in Filas(MaxFilasControl) :
          InitCon(1, EncabezadoCompleto, f, <<>>, p, fl)
    \/ \E p \in Plantillas \cup {SinPlantilla} :
          InitCon(1, EncabezadoCompleto, FilasDeUnidadesParecidas, <<>>, p, SinFallo)
    \/ \E c \in NombresDerivados, f \in Filas(MaxFilasControl) :
          InitCon(1, EncabezadoCon(c), FilasCon(f, c, Num(1)), <<>>,
                  SinPlantilla, SinFallo)
    \/ \E lugar \in LugaresGeo, g \in GeoEjemplo, f \in Filas(MaxFilasControl) :
          InitCon(1, EncabezadoConGeo(lugar),
                  FilasCon(f, columna_geolocalizacion, g), <<>>,
                  SinPlantilla, SinFallo)

marcos == <<df, df_filtrado, df_completo, df_completo_sin_links, df_ordenado,
            df_mora, df_saldo_vencido, coordinaciones_data, pendientes>>

escritura == <<libro, salida, fallos>>

\* validate_file_size(archivo_path)
ValidarArchivo ==
    /\ pc = "validar_archivo"
    /\ IF archivo.tamano > MAX_FILE_SIZE
       THEN /\ resultado' = Error(PREFIJO_LECTURA,
                                  "El archivo excede el tamano maximo de 16MB", <<>>)
            /\ pc' = "fin"
       ELSE /\ pc' = "cargar"
            /\ UNCHANGED resultado
    /\ UNCHANGED <<entrada, marcos, escritura>>

\* PASO 1: read_excel, clean_dataframe_columns, the caller's exclusion filter
Cargar ==
    /\ pc = "cargar"
    /\ LET leido == read_excel(archivo)
       IN  IF Len(codigos_a_excluir) > 0 /\ ~Tiene(leido, "Codigo acreditado")
           THEN \* df['Codigo acreditado'] raises KeyError
                /\ df' = leido
                /\ resultado' = Error(PREFIJO_INESPERADO, "'Codigo acreditado'", <<>>)
                /\ pc' = "fin"
           ELSE /\ df' = IF Len(codigos_a_excluir) > 0
                         THEN Filtrar(leido, LAMBDA r :
                                  ~isin(r.v["Codigo acreditado"], codigos_a_excluir))
                         ELSE leido
                /\ pc' = "validar_columnas"
                /\ UNCHANGED resultado
    /\ UNCHANGED <<entrada, df_filtrado, df_completo, df_completo_sin_links,
                   df_ordenado, df_mora, df_saldo_vencido, coordinaciones_data,
                   pendientes, escritura>>

required_columns == <<columna_codigo, columna_mora, columna_coordinacion>>

ValidarColumnas ==
    /\ pc = "validar_columnas"
    /\ LET missing_columns == SelectSeq(required_columns, LAMBDA c : ~Tiene(df, c))
       IN  IF Len(missing_columns) > 0
           THEN /\ resultado' = Error(PREFIJO_LECTURA,
                                      "Columnas requeridas no encontradas: ",
                                      missing_columns)
                /\ pc' = "fin"
           ELSE /\ pc' = "estandarizar"
                /\ UNCHANGED resultado
    /\ UNCHANGED <<entrada, marcos, escritura>>

code_columns == <<columna_codigo, "Codigo promotor", "Codigo recuperador">>

\* PASO 1.1
EstandarizarCodigos ==
    /\ pc = "estandarizar"
    /\ df' = standardize_codes(df, code_columns)
    /\ pc' = "filtrar_fraudes"
    /\ UNCHANGED <<entrada, df_filtrado, df_completo, df_completo_sin_links,
                   df_ordenado, df_mora, df_saldo_vencido, coordinaciones_data,
                   pendientes, escritura, resultado>>

\* (variant: the fraud filter left out)
SinFraudes_sin_filtro(d) == d

\* df[~df[columna_codigo].isin(LISTA_FRAUDE)]
SinFraudes(d) == Filtrar(d, LAMBDA r : r.v[columna_codigo].s \notin LISTA_FRAUDE)

\* PASO 2
FiltrarFraudes ==
    /\ pc = "filtrar_fraudes"
    /\ df_filtrado' = SinFraudes(df)
    /\ pc' = "limpiar"
    /\ UNCHANGED <<entrada, df, df_completo, df_completo_sin_links, df_ordenado,
                   df_mora, df_saldo_vencido, coordinaciones_data, pendientes,
                   escritura, resultado>>

\* PASO 1.2: telephone columns, the cycle as 2 digits, the links of the
\* address column
LimpiarDatos ==
    /\ pc = "limpiar"
    /\ LET limpio == clean_phone_numbers(df_filtrado)
           con_ciclo ==
               IF Tiene(limpio, "Ciclo")
               THEN Asignar(limpio, "Ciclo", LAMBDA r : CodigoEstandar(r.v["Ciclo"], 2))
               ELSE limpio
       IN  df_filtrado' = add_geolocation_links(con_ciclo, columna_geolocalizacion)
    /\ pc' = "informe_completo"
    /\ UNCHANGED <<entrada, df, df_completo, df_completo_sin_links, df_ordenado,
                   df_mora, df_saldo_vencido, coordinaciones_data, pendientes,
                   escritura, resultado>>

\* PASO 1.3
CrearInformeCompleto ==
    /\ pc = "informe_completo"
    /\ LET completo == InsertarLink(
                           add_par_column(sort_values_desc(df_filtrado, columna_mora),
                                          columna_mora))
           sin_links == Quitar(completo, {"link_texto", "link_url"})
           reordenado == IF Tiene(sin_links, "Codigo acreditado")
                         THEN Seleccionar(sin_links,
                                          AlInicio(sin_links.cols, "Codigo acreditado"))
                         ELSE sin_links
       IN  /\ df_completo' = completo
           /\ df_completo_sin_links' =
                  IF TieneDuplicadas(reordenado) THEN SinDuplicadas(reordenado)
                  ELSE reordenado
    /\ pc' = "ordenar"
    /\ UNCHANGED <<entrada, df, df_filtrado, df_ordenado, df_mora, df_saldo_vencido,
                   coordinaciones_data, pendientes, escritura, resultado>>

\* PASO 3
Ordenar ==
    /\ pc = "ordenar"
    /\ df_ordenado' = add_par_column(sort_values_desc(df_filtrado, columna_mora),
                                     columna_mora)
    /\ pc' = "crear_mora"
    /\ UNCHANGED <<entrada, df, df_filtrado, df_completo, df_completo_sin_links,
                   df_mora, df_saldo_vencido, coordinaciones_data, pendientes,
                   escritura, resultado>>

\* PASO 4
CrearMora ==
    /\ pc = "crear_mora"
    /\ df_mora' = InsertarLink(add_par_column(
                      Filtrar(df_ordenado, LAMBDA r : Ge(r.v[columna_mora], 1)),
                      columna_mora))
    /\ pc' = "crear_saldo_vencido"
    /\ UNCHANGED <<entrada, df, df_filtrado, df_completo, df_completo_sin_links,
                   df_ordenado, df_saldo_vencido, coordinaciones_data, pendientes,
                   escritura, resultado>>

\* PASO 4.1
CrearSaldoVencido ==
    /\ pc = "crear_saldo_vencido"
    /\ df_saldo_vencido' =
           IF Tiene(df_ordenado, "Saldo vencido")
           THEN LET filtrado == Filtrar(df_ordenado, LAMBDA r :
                                    /\ Ge(r.v["Saldo vencido"], 1)
                                    /\ (isna(r.v[columna_mora]) \/ Le(r.v[columna_mora], 0)))
                IN  IF Len(filtrado.filas) > 0
                    THEN InsertarLink(add_par_column(filtrado, columna_mora))
                    ELSE filtrado
           ELSE NoDF
    /\ pc' = "distribuir"
    /\ UNCHANGED <<entrada, df, df_filtrado, df_completo, df_completo_sin_links,
                   df_ordenado, df_mora, coordinaciones_data, pendientes,
                   escritura, resultado>>

\* (variant: every row goes to every unit)
df_coord_de_todas(d, coord) == add_par_column(d, columna_mora)

\* df_ordenado[df_ordenado[columna_coordinacion] == coord], with PAR regenerated
df_coord_de(d, coord) ==
    add_par_column(Filtrar(d, LAMBDA r : r.v[columna_coordinacion] = coord),
                   columna_mora)

\* PASO 5
Distribuir ==
    /\ pc = "distribuir"
    /\ LET lista_coordinaciones ==
               SelectSeq(Unicos(Columna(df_ordenado.filas, columna_coordinacion)), notna)
       IN  coordinaciones_data' =
               [i \in 1..Len(lista_coordinaciones) |->
                   [coord |-> lista_coordinaciones[i],
                    df_coord |-> InsertarLink(
                                     df_coord_de(df_ordenado, lista_coordinaciones[i]))]]
    /\ pendientes' = coordinaciones_data'
    /\ pc' = "preparar_salida"
    /\ UNCHANGED <<entrada, df, df_filtrado, df_completo, df_completo_sin_links,
                   df_ordenado, df_mora, df_saldo_vencido, escritura, resultado>>

\* PASO 6, up to the writer: the template copied to ruta_salida and emptied of
\* its sheets (all of them only when it has more than one, a hidden "_temp"
\* put in their place), or a new file opened for writing
PrepararSalida ==
    /\ pc = "preparar_salida"
    /\ LET semilla ==
               IF ~plantilla.existe THEN <<>>
               ELSE IF Len(plantilla.hojas) > 1
               THEN <<Hoja("plantilla", HOJA_TEMP, DataFrameVacio, 0, <<"hidden">>)>>
               ELSE [i \in 1..Len(plantilla.hojas) |->
                        Hoja("plantilla", plantilla.hojas[i], DataFrameVacio, 0, <<>>)]
       IN  /\ salida' = [SinSalida EXCEPT
                             !.existe = TRUE, !.hojas = semilla,
                             !.miembros = IF plantilla.existe
                                          THEN ArchivoDe("generado", Len(semilla), TRUE)
                                          ELSE <<>>]
           /\ libro' = semilla
    /\ pc' = "hoja_x_coordinacion"
    /\ UNCHANGED <<entrada, marcos, fallos, resultado>>

-----------------------------------------------------------------------------
(* The sheets, inside "with writer"                                        *)

\* An aggregation sheet, given r = what its function did: the inline columns
\* stay in df_completo; the sheet is written only when the table has rows
HojaAgregacion(r, clase, nombre, siguiente) ==
    /\ df_completo' = r.df
    /\ IF Len(r.tabla.filas) > 0
       THEN EscribirHoja(clase, nombre, RenombrarRangos(r.tabla), 9,
                         Len(r.tabla.filas), siguiente)
       ELSE /\ pc' = siguiente
            /\ UNCHANGED <<escritura, resultado>>
    /\ UNCHANGED <<entrada, df, df_filtrado, df_completo_sin_links, df_ordenado,
                   df_mora, df_saldo_vencido, coordinaciones_data, pendientes>>

\* PASO 6.0: an exception of crear_hoja_x_coordinacion is caught and leaves an
\* empty frame; the sheet is written only when the frame is not empty
HojaXCoordinacion ==
    /\ pc = "hoja_x_coordinacion"
    /\ HojaAgregacion(crear_hoja_x_coordinacion(df_completo), "x_coordinacion",
                      HOJA_X_COORDINACION, "hoja_x_recuperador")

\* PASO 6.1
HojaXRecuperador ==
    /\ pc = "hoja_x_recuperador"
    /\ HojaAgregacion(crear_hoja_x_recuperador(df_completo), "x_recuperador",
                      HOJA_X_RECUPERADOR, "hoja_informe")

\* what every detail sheet gets before it is written
ConColumnasDerivadas(d) ==
    agregar_columnas_riesgo_y_mora(agregar_columna_concepto_deposito(d))

\* df.insert(loc, column, value) raises ValueError("cannot insert <column>,
\* already exists") when the frame has the column.  The column on which the
\* two functions raise for frame d, "" when they do not: the deposit code is
\* inserted when the frame has a delivery-method column (and assigned
\* otherwise), the three risk columns are inserted after it when the four
\* source columns are there.
ColumnaRepetida(d) ==
    LET requeridas == {"Dias de mora", "Saldo capital", "Saldo total", "Saldo vencido"}
        riesgo == <<"Saldo riesgo capital", "Saldo riesgo total", "% MORA">>
        hay == {i \in 1..3 : Tiene(d, riesgo[i])}
    IN  IF ColumnaFormaEntrega(d) # "" /\ Tiene(d, "Concepto Deposito")
        THEN "Concepto Deposito"
        ELSE IF requeridas \subseteq Columnas(d) /\ hay # {}
        THEN riesgo[CHOOSE i \in hay : \A j \in hay : i <= j]
        ELSE ""

\* A detail sheet: the derived columns are added to a copy of d, then the
\* sheet is written.  A ValueError of insert leaves the with-block before
\* to_excel: the workbook is saved as it is, and "except (ValueError, OSError,
\* IOError)" re-raises it as an error of reading the workbook.
EscribirDetalle(clase, nombre, d, startrow, num_filas, siguiente) ==
    IF ColumnaRepetida(d) # ""
    THEN /\ salida' = Guardado(salida, libro)
         /\ resultado' = Error(PREFIJO_LECTURA, "cannot insert, already exists",
                               <<ColumnaRepetida(d)>>)
         /\ pc' = "fin"
         /\ UNCHANGED <<libro, fallos>>
    ELSE EscribirHoja(clase, nombre, ConColumnasDerivadas(d), startrow, num_filas,
                      siguiente)

\* the full ledger, on the sheet named by the report date
HojaInforme ==
    /\ pc = "hoja_informe"
    /\ df_completo_sin_links' =
           IF ColumnaRepetida(df_completo_sin_links) # "" THEN df_completo_sin_links
           ELSE ConColumnasDerivadas(df_completo_sin_links)
    /\ EscribirDetalle("informe", fecha_actual, df_completo_sin_links, 1,
                       Len(df_completo.filas), "hoja_mora")
    /\ UNCHANGED <<entrada, df, df_filtrado, df_completo, df_ordenado, df_mora,
                   df_saldo_vencido, coordinaciones_data, pendientes>>

HojaMora ==
    /\ pc = "hoja_mora"
    /\ df_mora' = IF TieneDuplicadas(df_mora) THEN SinDuplicadas(df_mora) ELSE df_mora
    /\ EscribirDetalle("mora", HOJA_MORA,
                       Quitar(df_mora', {"link_texto", "link_url"}),
                       1, Len(df_mora.filas), "hoja_saldo_vencido")
    /\ UNCHANGED <<entrada, df, df_filtrado, df_completo, df_completo_sin_links,
                   df_ordenado, df_saldo_vencido, coordinaciones_data, pendientes>>

\* written only when df_saldo_vencido is not None and has rows
HojaSaldoVencido ==
    /\ pc = "hoja_saldo_vencido"
    /\ IF df_saldo_vencido # NoDF /\ Len(df_saldo_vencido.filas) > 0
       THEN /\ df_saldo_vencido' =
                   IF TieneDuplicadas(df_saldo_vencido)
                   THEN SinDuplicadas(df_saldo_vencido) ELSE df_saldo_vencido
            /\ EscribirDetalle("saldo_vencido", HOJA_SALDO_VENCIDO,
                               Quitar(df_saldo_vencido', {"link_texto", "link_url"}),
                               1, Len(df_saldo_vencido.filas), "hoja_liquidacion")
       ELSE /\ pc' = "hoja_liquidacion"
            /\ UNCHANGED <<df_saldo_vencido, escritura, resultado>>
    /\ UNCHANGED <<entrada, df, df_filtrado, df_completo, df_completo_sin_links,
                   df_ordenado, df_mora, coordinaciones_data, pendientes>>

\* the early-settlement calculator: one blank row under its twelve headers
HojaLiquidacion ==
    /\ pc = "hoja_liquidacion"
    /\ EscribirHoja("liquidacion", HOJA_LIQUIDACION, hoja_liquidacion(df_completo), 1, 1,
                    IF Len(pendientes) > 0 THEN "hojas_coordinacion" ELSE "cerrar")
    /\ UNCHANGED <<entrada, marcos>>

\* one turn of "for coord_name, df_coord in coordinaciones_data.items()"
HojaCoordinacion ==
    /\ pc = "hojas_coordinacion"
    /\ Len(pendientes) > 0
    /\ LET coord_name == Head(pendientes).coord.s
           df_coord == Head(pendientes).df_coord
           sin_duplicadas == IF TieneDuplicadas(df_coord) THEN SinDuplicadas(df_coord)
                             ELSE df_coord
       IN  EscribirDetalle("unidad", NombreHoja(coord_name),
                           Quitar(sin_duplicadas, {"link_texto", "link_url"}),
                           1, Len(df_coord.filas),
                           IF Len(pendientes) > 1 THEN "hojas_coordinacion" ELSE "cerrar")
    /\ pendientes' = Tail(pendientes)
    /\ UNCHANGED <<entrada, df, df_filtrado, df_completo, df_completo_sin_links,
                   df_ordenado, df_mora, df_saldo_vencido, coordinaciones_data>>

\* the with-block is left: ExcelWriter.__exit__ saves the workbook
CerrarWriter ==
    /\ pc = "cerrar"
    /\ salida' = Guardado(salida, libro)
    /\ pc' = "copiar_macros"
    /\ UNCHANGED <<entrada, marcos, libro, fallos, resultado>>

\* the members of the generated archive that zip_final holds when writestr
\* raises in the copy loop: some of them, in the order of namelist()
MiembrosCopiados(hojas) == {SubSeq(hojas, 1, k) : k \in 0..(Len(hojas) - 1)}

\* 'vba' in item.lower(), item.startswith('xl/vbaProject')
EsVba(nombre) == nombre = VBA_PROJECT

\* zip_final when its with-block is left: the members of the generated
\* archive but those named like the VBA project, then the VBA members of
\* the example archive, then [Content_Types].xml of the example archive when
\* it registers the VBA project (writestr of a name the archive already
\* holds adds a second member of that name)
zip_final(zip_generado, zip_ejemplo) ==
    SelectSeq(zip_generado, LAMBDA e : ~EsVba(e.nombre))
    \o SelectSeq(zip_ejemplo, LAMBDA e : EsVba(e.nombre))
    \o SelectSeq(zip_ejemplo, LAMBDA e : /\ e.nombre = CONTENT_TYPES
                                         /\ VBA_PROJECT \in e.datos.tipos)

\* PASO 7: the VBA project of the example archive is spliced into the output.
\* zipfile.ZipFile(ruta_salida, 'w') empties the output when it is opened; the
\* copy of the generated members is not guarded, and "except Exception" only
\* logs.  archivo_temp is removed on the successful path only.
CopiarMacros ==
    /\ pc = "copiar_macros"
    /\ IF ~plantilla.existe
       THEN UNCHANGED salida
       ELSE IF fallo.hoja = "macros" /\ fallo.paso = "copy"
       THEN UNCHANGED salida
       ELSE IF fallo.hoja = "macros" /\ fallo.paso = "zip_ejemplo"
       THEN salida' = [salida EXCEPT !.temporal = TRUE]
       ELSE IF fallo.hoja = "macros" /\ fallo.paso = "writestr"
       THEN \E copiados \in MiembrosCopiados(salida.hojas) :
                salida' = [Guardado(salida, copiados) EXCEPT !.temporal = TRUE]
       ELSE salida' = [salida EXCEPT
                          !.macros = TRUE,
                          !.miembros = zip_final(salida.miembros,
                                                 ArchivoDe("ejemplo", Len(plantilla.hojas),
                                                           TRUE))]
    /\ fallos' = IF plantilla.existe /\ fallo.hoja = "macros"
                 THEN Append(fallos, fallo) ELSE fallos
    /\ pc' = "retornar"
    /\ UNCHANGED <<entrada, marcos, libro, resultado>>

\* return ruta_salida, len(coordinaciones_data)
Retornar ==
    /\ pc = "retornar"
    /\ resultado' = Retorno(Len(coordinaciones_data))
    /\ pc' = "fin"
    /\ UNCHANGED <<entrada, marcos, escritura>>

Next ==
    \/ ValidarArchivo
    \/ Cargar
    \/ ValidarColumnas
    \/ EstandarizarCodigos
    \/ FiltrarFraudes
    \/ LimpiarDatos
    \/ CrearInformeCompleto
    \/ Ordenar
    \/ CrearMora
    \/ CrearSaldoVencido
    \/ Distribuir
    \/ PrepararSalida
    \/ HojaXCoordinacion
    \/ HojaXRecuperador
    \/ HojaInforme
    \/ HojaMora
    \/ HojaSaldoVencido
    \/ HojaLiquidacion
    \/ HojaCoordinacion
    \/ CerrarWriter
    \/ CopiarMacros
    \/ Retornar

Spec == Init /\ [][Next]_vars

-----------------------------------------------------------------------------
(* Calls of the pure functions                                             *)

\* arrears-days tried: null, the integers -MaxMora..MaxMora and the halves
\* between them
MaxMora == 95

ValoresMora ==
    {NaN} \cup {Q(k, 2) : k \in (-2 * MaxMora)..(2 * MaxMora)}

\* identifier cells tried: null, text, small and large numbers of both signs
MaxCodigo == 12

ValoresCodigo ==
    {NaN, Str(<<"a", "b", "c">>), Str(<<"1", "0", "5", "3">>),
     Str(<<"0", "0", "1", "0", "5", "3">>), Str(<<"-", "7">>), Str(<<>>),
     Q(2107, 2), Num(999999), Num(1000000), Num(1234567), Num(-1234567)}
    \cup {Num(k) : k \in (-MaxCodigo)..MaxCodigo}

InitFunciones ==
    /\ pc = "funciones"
    /\ archivo = [tamano |-> 0, encabezados |-> <<>>, filas |-> <<>>]
    /\ codigos_a_excluir = <<>>
    /\ plantilla = SinPlantilla
    /\ fallo = SinFallo
    /\ df = NoDF
    /\ df_filtrado = NoDF
    /\ df_completo = NoDF
    /\ df_completo_sin_links = NoDF
    /\ df_ordenado = NoDF
    /\ df_mora = NoDF
    /\ df_saldo_vencido = NoDF
    /\ coordinaciones_data = <<>>
    /\ pendientes = <<>>
    /\ libro = <<>>
    /\ salida = SinSalida
    /\ fallos = <<>>
    /\ resultado = SinResultado
    /\ llamada = [fn |-> "ninguna", arg |-> NaN]
    /\ ret = NaN

LlamarAsignarRangoMora ==
    /\ pc = "funciones"
    /\ \E v \in ValoresMora :
          /\ llamada' = [fn |-> "asignar_rango_mora", arg |-> v]
          /\ ret' = Str(asignar_rango_mora(v))
    /\ UNCHANGED <<pc, archivo, codigos_a_excluir, plantilla, fallo, marcos,
                   escritura, resultado>>

\* standardize_codes on a frame of one row holding the cell
LlamarStandardizeCodes ==
    /\ pc = "funciones"
    /\ \E c \in ValoresCodigo :
          /\ llamada' = [fn |-> "standardize_codes", arg |-> c]
          /\ ret' = standardize_codes(
                        [cols  |-> <<columna_codigo>>,
                         filas |-> <<[idx |-> 0, v |-> (columna_codigo :> c)]>>],
                        code_columns).filas[1].v[columna_codigo]
    /\ UNCHANGED <<pc, archivo, codigos_a_excluir, plantilla, fallo, marcos,
                   escritura, resultado>>

PrimerDia == 4
UltimoDia == 10

\* the instants at which an invocation reads the clock
Instantes == {[dia |-> d, hora |-> h] : d \in PrimerDia..UltimoDia, h \in {9, 17}}

\* two invocations of procesar_reporte_antiguedad, each computing its
\* ruta_salida from its own datetime.now()
LlamarRutaSalida ==
    /\ pc = "funciones"
    /\ \E a \in Instantes, b \in Instantes :
          /\ llamada' = [fn |-> "ruta_salida", arg |-> [t |-> "par", a |-> a, b |-> b]]
          /\ ret' = [t |-> "par", a |-> RutaSalidaDe(a), b |-> RutaSalidaDe(b)]
    /\ UNCHANGED <<pc, archivo, codigos_a_excluir, plantilla, fallo, marcos,
                   escritura, resultado>>

\* the length of the longest unit names of the examples
LargoUnidad == 32

\* unit names a workbook can hold in its unit column
UnidadesEjemplo ==
    {<<"N", "o", "r", "t", "e">>,
     <<"S", "u", "r", " ", "E", "s", "t", "e">>,
     <<"S", "u", "r", "_", "E", "s", "t", "e">>,
     <<"M", "o", "r", "a">>,
     [i \in 1..LargoUnidad |-> IF i < LargoUnidad THEN "Z" ELSE "1"],
     [i \in 1..LargoUnidad |-> IF i < LargoUnidad THEN "Z" ELSE "2"]}

\* the sheet names of two distinct units of one run (the keys of
\* coordinaciones_data are the distinct non-null values of the unit column)
LlamarNombreHoja ==
    /\ pc = "funciones"
    /\ \E a \in UnidadesEjemplo, b \in UnidadesEjemplo :
          /\ a # b
          /\ llamada' = [fn |-> "sheet_name", arg |-> [t |-> "par", a |-> a, b |-> b]]
          /\ ret' = [t |-> "par", a |-> NombreHoja(a), b |-> NombreHoja(b)]
    /\ UNCHANGED <<pc, archivo, codigos_a_excluir, plantilla, fallo, marcos,
                   escritura, resultado>>

\* a numeral of a coordinate: its text and, when float() accepts it, its value
Numeral(txt, ok, n, d) == [txt |-> txt, ok |-> ok, n |-> n, d |-> d]

LatitudesEjemplo ==
    {[deg |-> g, min |-> Numeral(<<"1", "2">>, TRUE, 12, 1), sec |-> sg, dir |-> h] :
        g  \in {Numeral(<<"1", "9">>, TRUE, 19, 1), Numeral(<<"0">>, TRUE, 0, 1)},
        sg \in {Numeral(<<"1", "2", ".", "2">>, TRUE, 122, 10),
                Numeral(<<"0">>, TRUE, 0, 1),
                Numeral(<<"1", ".", "2", ".", "3">>, FALSE, 0, 1)},
        h  \in {"N", "S"}}

LongitudesEjemplo ==
    {[deg |-> Numeral(<<"1", "0", "0">>, TRUE, 100, 1),
      min |-> Numeral(<<"0", "7">>, TRUE, 7, 1), sec |-> sg, dir |-> h] :
        sg \in {Numeral(<<"5", "1", ".", "8">>, TRUE, 518, 10),
                Numeral(<<".">>, FALSE, 0, 1)},
        h  \in {"W", "E"}}

\* deg°min'sec"H
TextoMedio(m) ==
    m.deg.txt \o <<Grado>> \o m.min.txt \o <<"'">> \o m.sec.txt \o <<"\"", m.dir>>

\* what precedes the coordinate in the cell
PrefijosEjemplo == {<<>>, <<" ", "a", " ">>, <<"h", "t", "t", "p", " ">>}

TextosEjemplo ==
    {<<>>, <<" ", " ">>,
     <<"h", "t", "t", "p", "s", ":", "/", "/", "m", "a", "p", "s", ".", "g", "o", "o", "g", "l", "e", ".", "c", "o", "m", "/", "m", "a", "p", "s", "?", "q", "=", "t", "e", "s", "t">>,
     <<"g", "o", "o", "g", "l", "e", ".", "c", "o", "m", "/", "m", "a", "p", "s", "/", "x">>,
     <<"E", "s", "t", "e", "b", "a", "n", " ", "b", "u", "n", "u", "e", "l", "o", "s", " ", "r", "u", "m", "b", "o">>,
     <<" ", "A", "v", ".", " ", "P", "r", "i", "n", "c", "i", "p", "a", "l", " ", "1", "2", "3", ",", " ", "C", "i", "u", "d", "a", "d">>,
     <<"c", "a", "l", "l", "e", " ", "5">>,
     <<"1", "9", Grado, "1", "2", "'", "1", "2", "\"", "N", "1", "0", "0", Grado, "0", "7", "'", "5", "1", "\"", "W">>,
     <<"1", "9", Grado, "1", "2", "'", "N">>}

\* the cells of the location column: null, text, and coordinates written
\* from their fields
ValoresGeo ==
    {[celda |-> NaN, origen |-> [t |-> "texto"]]}
    \cup {[celda |-> Str(x), origen |-> [t |-> "texto"]] : x \in TextosEjemplo}
    \cup {[celda  |-> Str(pre \o TextoMedio(la) \o <<" ">> \o TextoMedio(lo)),
           origen |-> [t |-> "dms", prefijo |-> pre, lat |-> la, lon |-> lo]] :
              pre \in PrefijosEjemplo, la \in LatitudesEjemplo, lo \in LongitudesEjemplo}

\* df[geolocation_column].apply(generar_link_google_maps) on one cell
LlamarGenerarLink ==
    /\ pc = "funciones"
    /\ \E x \in ValoresGeo :
          /\ llamada' = [fn |-> "generar_link_google_maps",
                         arg |-> [t |-> "geo", celda |-> x.celda, origen |-> x.origen]]
          /\ ret' = generar_link_google_maps(x.celda)
    /\ UNCHANGED <<pc, archivo, codigos_a_excluir, plantilla, fallo, marcos,
                   escritura, resultado>>

\* the length of the longest sheet names tried
LargoNombre == 256

\* sheet names handed to generate_valid_table_name: the fixed names of the
\* workbook, and names that are empty, start with a digit, a dot, an
\* underscore or a blank, hold characters outside ASCII, or are long
NombresDeHojaEjemplo ==
    {<<>>, fecha_actual, HOJA_MORA, HOJA_SALDO_VENCIDO, HOJA_TEMP,
     <<".", "a", "b", "c">>,
     <<" ">>,
     <<"-", "1">>,
     <<"A", "-", "B">>,
     <<Grado, Grado>>,
     <<"P", "e", Grado, "a">>,
     <<Grado, "9", "x">>,
     [i \in 1..LargoNombre |-> "a"],
     [i \in 1..LargoNombre |-> "7"],
     [i \in 1..LargoNombre |-> IF i = 1 THEN "_" ELSE "b"],
     [i \in 1..(LargoNombre - 2) |-> "7"],
     [i \in 1..LargoNombre |-> Grado]}

LlamarGenerateValidTableName ==
    /\ pc = "funciones"
    /\ \E x \in NombresDeHojaEjemplo :
          /\ llamada' = [fn |-> "generate_valid_table_name", arg |-> Str(x)]
          /\ ret' = Str(generate_valid_table_name(x))
    /\ UNCHANGED <<pc, archivo, codigos_a_excluir, plantilla, fallo, marcos,
                   escritura, resultado>>

NextFunciones ==
    \/ LlamarAsignarRangoMora
    \/ LlamarStandardizeCodes
    \/ LlamarRutaSalida
    \/ LlamarNombreHoja
    \/ LlamarGenerarLink
    \/ LlamarGenerateValidTableName

SpecFunciones == InitFunciones /\ [][NextFunciones]_vars

-----------------------------------------------------------------------------
(* Properties: what they are stated over                                   *)

\* the sheets of the given kinds, in workbook order
HojasDe(lib, clases) == SelectSeq(lib, LAMBDA h : h.clase \in clases)

ClasesDetalle == {"informe", "mora", "saldo_vencido", "unidad"}

ClasesAgregacion == {"x_coordinacion", "x_recuperador"}

\* the normalized 6-digit identifier of a row of the uploaded workbook
Normalizado(f) == CodigoEstandar(f["Codigo acreditado"], 6)

EsFraude(f) == Normalizado(f).s \in LISTA_FRAUDE

\* the caller did not ask for the cell's identifier to be left out
NoExcluida(f) == ~isin(f["Codigo acreditado"], codigos_a_excluir)

\* Series.sum() over rows of the uploaded workbook
SumaEntradas(fs, c) == SumaCeldas([i \in 1..Len(fs) |-> fs[i][c]])

\* the balance at risk of a row of the uploaded workbook, by its definition
RiesgoDe(mora, saldo) == IF notna(mora) /\ Gt(mora, 0) THEN saldo ELSE Num(0)

\* the amount of column c a row of the uploaded workbook stands for: its
\* cell, or for a risk amount the workbook does not carry, its definition
Monto(f, c) ==
    CASE c \in DOMAIN f             -> f[c]
      [] c = "Saldo riesgo capital" -> RiesgoDe(f["Dias de mora"], f["Saldo capital"])
      [] c = "Saldo riesgo total"   -> RiesgoDe(f["Dias de mora"], f["Saldo total"])

ColumnasMonetarias ==
    {"Cantidad Prestada", "Saldo capital", "Saldo vencido", "Saldo total",
     "Saldo riesgo capital", "Saldo riesgo total"}

\* row g of an aggregation table covers row f of the uploaded workbook: the
\* Total row (the last one) covers every row, a group row those of its keys
Cubre(hoja, g, f) ==
    LET v == hoja.datos.filas[g].v
    IN  \/ g = Len(hoja.datos.filas)
        \/ /\ f["Coordinacion"] = v["Coordinacion"]
           /\ hoja.clase = "x_recuperador" =>
                 /\ CodigoEstandar(f["Codigo recuperador"], 6) = v["Codigo recuperador"]
                 /\ f["Nombre recuperador"] = v["Nombre recuperador"]

\* the rows of the uploaded workbook satisfying P that row g covers
Cubiertas(hoja, g, P(_)) ==
    SelectSeq(archivo.filas, LAMBDA f : P(f) /\ Cubre(hoja, g, f))

\* C1: no row whose normalized identifier is in LISTA_FRAUDE contributes to a
\* monetary sum of X_Coordinacion or X_Recuperador: every sum of every group
\* row and of the Total row is the sum over the covered rows that are not
\* fraud rows (and that the caller's list did not remove).
C1_FraudeNoSuma ==
    \A k \in 1..Len(libro) :
        libro[k].clase \in ClasesAgregacion =>
            \A g \in 1..Len(libro[k].datos.filas) :
                LET cubiertas == Cubiertas(libro[k], g,
                                     LAMBDA f : ~EsFraude(f) /\ NoExcluida(f))
                IN  \A c \in ColumnasMonetarias :
                        libro[k].datos.filas[g].v[c] =
                            SumaCeldas([i \in 1..Len(cubiertas) |-> Monto(cubiertas[i], c)])

\* a run that wrote both tables from a workbook in which a fraud row and
\* another row share the unit
C1_Testigo ==
    /\ pc = "fin"
    /\ resultado.t = "ok"
    /\ Len(HojasDe(salida.hojas, ClasesAgregacion)) = 2
    /\ \E i, j \in 1..Len(archivo.filas) :
          /\ EsFraude(archivo.filas[i])
          /\ ~EsFraude(archivo.filas[j])
          /\ archivo.filas[i]["Coordinacion"] = archivo.filas[j]["Coordinacion"]
          /\ ~EqK(archivo.filas[i]["Saldo total"], 0)

\* the identifiers the caller's list names, normalized
ExcluidosNormalizados ==
    {CodigoEstandar(codigos_a_excluir[i], 6) : i \in 1..Len(codigos_a_excluir)}

\* C2: when the caller supplies an exclusion list, no row whose identifier
\* normalizes to a code of that list is on any detail sheet of the output,
\* whatever the representation of the source cell (number or text).
C2_ExcluidosAusentes ==
    (pc = "fin" /\ resultado.t = "ok" /\ Len(codigos_a_excluir) > 0) =>
        \A k \in 1..Len(salida.hojas) :
            salida.hojas[k].clase \in ClasesDetalle =>
                \A i \in 1..Len(salida.hojas[k].datos.filas) :
                    salida.hojas[k].datos.filas[i].v["Codigo acreditado"]
                        \notin ExcluidosNormalizados

\* the per-unit partitions exist
Distribuido ==
    pc \in {"preparar_salida", "hoja_x_coordinacion", "hoja_x_recuperador",
            "hoja_informe", "hoja_mora", "hoja_saldo_vencido", "hoja_liquidacion",
            "hojas_coordinacion", "cerrar", "retornar"}
    \/ (pc = "fin" /\ salida.existe)

\* the index labels of the rows of a frame
Etiquetas(d) == {d.filas[i].idx : i \in 1..Len(d.filas)}

RECURSIVE SumaLongitudes(_)
SumaLongitudes(ps) ==
    IF Len(ps) = 0 THEN 0
    ELSE Len(Head(ps).df_coord.filas) + SumaLongitudes(Tail(ps))

\* C3: the per-unit partitions are pairwise disjoint, every row of the full
\* ledger with a non-null unit is in exactly one of them (that of its unit),
\* and their row counts add up to the ledger's rows minus its null-unit rows.
C3_ParticionCompleta ==
    Distribuido =>
        LET n == Len(coordinaciones_data)
            parte(i) == coordinaciones_data[i].df_coord
            libro_mayor == df_completo_sin_links.filas
            nulas == SelectSeq(libro_mayor, LAMBDA r : isna(r.v["Coordinacion"]))
        IN  /\ \A i, j \in 1..n :
                  i # j => Etiquetas(parte(i)) \cap Etiquetas(parte(j)) = {}
            /\ \A x \in 1..Len(libro_mayor) :
                  notna(libro_mayor[x].v["Coordinacion"]) =>
                      /\ Cardinality({i \in 1..n :
                             libro_mayor[x].idx \in Etiquetas(parte(i))}) = 1
                      /\ \E i \in 1..n :
                            /\ coordinaciones_data[i].coord = libro_mayor[x].v["Coordinacion"]
                            /\ libro_mayor[x].idx \in Etiquetas(parte(i))
            /\ \A i \in 1..n :
                  Cardinality(Etiquetas(parte(i))) = Len(parte(i).filas)
            /\ SumaLongitudes(coordinaciones_data) = Len(libro_mayor) - Len(nulas)

\* two partitions and a ledger row without unit
C3_Testigo ==
    /\ Distribuido
    /\ Len(coordinaciones_data) = 2
    /\ \E x \in 1..Len(df_completo_sin_links.filas) :
          isna(df_completo_sin_links.filas[x].v["Coordinacion"])
    /\ Len(df_completo_sin_links.filas) = 3

\* sum(overdue) / sum(total), 0 when the total is zero
RazonDeSumas(fs) ==
    IF EqK(SumaEntradas(fs, "Saldo total"), 0) THEN Num(0)
    ELSE Div(SumaEntradas(fs, "Saldo vencido"), SumaEntradas(fs, "Saldo total"))

\* the ratio of one row of the uploaded workbook
RazonDeFila(f) ==
    IF notna(f["Saldo total"]) /\ ~EqK(f["Saldo total"], 0)
    THEN Div(f["Saldo vencido"], f["Saldo total"]) ELSE Num(0)

\* C4: in both aggregation tables the ratio of every group row and of the
\* Total row is sum(overdue)/sum(total) over the rows it covers, and 0 when
\* that total is zero.
C4_RazonDeSumas ==
    \A k \in 1..Len(libro) :
        libro[k].clase \in ClasesAgregacion =>
            \A g \in 1..Len(libro[k].datos.filas) :
                libro[k].datos.filas[g].v["% MORA"] =
                    RazonDeSumas(Cubiertas(libro[k], g,
                                    LAMBDA f : ~EsFraude(f) /\ NoExcluida(f)))

\* a table with a group row whose ratio is not the mean of its rows' ratios
\* and a Total row whose ratio is not the mean of the group rows' ratios
C4_Testigo ==
    \E k \in 1..Len(libro) :
        /\ libro[k].clase \in ClasesAgregacion
        /\ LET t == libro[k].datos.filas
               n == Len(t)
           IN  /\ n >= 3
               /\ \E g \in 1..(n - 1) :
                     LET cubiertas == Cubiertas(libro[k], g,
                                         LAMBDA f : ~EsFraude(f) /\ NoExcluida(f))
                     IN  t[g].v["% MORA"] #
                             Media([i \in 1..Len(cubiertas) |-> RazonDeFila(cubiertas[i])])
               /\ t[n].v["% MORA"] # Media([g \in 1..(n - 1) |-> t[g].v["% MORA"]])

\* C5: asignar_rango_mora(v) is one of seven labels, fixed by v alone: "0" for
\* null, negative and 0; "7" for 1..7; "15" for 8..15; "30" for 16..30; "60"
\* for 31..60; "90" for 61..90; ">90" for every value above 90.
C5_RangosDeMora ==
    llamada.fn = "asignar_rango_mora" =>
        LET v == llamada.arg
            e == ret.s
        IN  /\ e \in {<<"0">>, <<"7">>, <<"1", "5">>, <<"3", "0">>, <<"6", "0">>,
                      <<"9", "0">>, <<">", "9", "0">>}
            /\ (isna(v) \/ Le(v, 0)) => e = <<"0">>
            /\ (Ge(v, 1) /\ Le(v, 7)) => e = <<"7">>
            /\ (Ge(v, 8) /\ Le(v, 15)) => e = <<"1", "5">>
            /\ (Ge(v, 16) /\ Le(v, 30)) => e = <<"3", "0">>
            /\ (Ge(v, 31) /\ Le(v, 60)) => e = <<"6", "0">>
            /\ (Ge(v, 61) /\ Le(v, 90)) => e = <<"9", "0">>
            /\ Gt(v, 90) => e = <<">", "9", "0">>

\* the call on the first value above the last threshold
C5_Testigo ==
    /\ llamada.fn = "asignar_rango_mora"
    /\ llamada.arg = Q(181, 2)
    /\ ret = Str(<<">", "9", "0">>)

\* C6: whatever the source cell of an identifier column holds, standardize_codes
\* stores a text of exactly 6 characters, all of them decimal digits.
C6_SeisDigitos ==
    llamada.fn = "standardize_codes" =>
        /\ ret.t = "str"
        /\ Len(ret.s) = 6
        /\ \A i \in 1..Len(ret.s) : EsDigito(ret.s[i])

\* the rows of a sheet that carry the identifier of row i
MismoCodigo(d, i) ==
    {j \in 1..Len(d.filas) :
        d.filas[j].v["Codigo acreditado"] = d.filas[i].v["Codigo acreditado"]}

\* "1" + 6-digit identifier + 2-digit cycle of a row of a sheet
CodigoDeposito(r) == Str(<<"1">> \o r.v["Codigo acreditado"].s \o r.v["Ciclo"].s)

\* C7: on every sheet that got the deposit-concept column, for every
\* identifier with two or more rows exactly one row, one holding the maximum
\* cycle, has "1" + identifier + cycle, and every other row of that identifier
\* has the empty string.
C7_UnConceptoPorCodigo ==
    \A k \in 1..Len(libro) :
        (libro[k].clase \in ClasesDetalle /\ Tiene(libro[k].datos, "Ciclo")) =>
            LET d == libro[k].datos
            IN  \A i \in 1..Len(d.filas) :
                    Cardinality(MismoCodigo(d, i)) >= 2 =>
                        \E j \in MismoCodigo(d, i) :
                            /\ d.filas[j].v["Concepto Deposito"] = CodigoDeposito(d.filas[j])
                            /\ \A m \in MismoCodigo(d, i) :
                                  StrToNat(d.filas[m].v["Ciclo"].s)
                                      <= StrToNat(d.filas[j].v["Ciclo"].s)
                            /\ \A m \in MismoCodigo(d, i) \ {j} :
                                  d.filas[m].v["Concepto Deposito"] = Str(<<>>)

\* the columns agregar_columnas_riesgo_y_mora needs
Prerrequisitos == {"Dias de mora", "Saldo capital", "Saldo total", "Saldo vencido"}

\* the row of frame d with index label x
FilaDe(d, x) == d.filas[CHOOSE i \in 1..Len(d.filas) : d.filas[i].idx = x]

\* the risk amounts on row r are those of the definition
RiesgoSegunMora(r) ==
    /\ r.v["Saldo riesgo capital"] = RiesgoDe(r.v["Dias de mora"], r.v["Saldo capital"])
    /\ r.v["Saldo riesgo total"] = RiesgoDe(r.v["Dias de mora"], r.v["Saldo total"])

\* the aggregation functions have put their risk columns into df_completo
ConRiesgoEnLinea ==
    /\ df_completo # NoDF
    /\ Tiene(df_completo, "Saldo riesgo capital")
    /\ Tiene(df_completo, "Saldo riesgo total")

\* the risk amounts of df_completo and of the sheet agree on row r of the sheet
DeAcuerdo(r) ==
    /\ FilaDe(df_completo, r.idx).v["Saldo riesgo capital"] = r.v["Saldo riesgo capital"]
    /\ FilaDe(df_completo, r.idx).v["Saldo riesgo total"] = r.v["Saldo riesgo total"]

\* C8 (as amended): on every detail sheet whose dataset has the arrears-days,
\* capital, total and overdue columns, risk_capital is the capital balance and
\* risk_total the total balance when arrears-days is non-null and > 0, both 0
\* otherwise, and the amounts the aggregation functions computed inline for the
\* same row are the same; on a sheet whose dataset lacks one of those columns
\* both amounts are 0 on every row.
C8_RiesgoConPrerrequisitos ==
    \A k \in 1..Len(libro) :
        libro[k].clase \in ClasesDetalle =>
            \A i \in 1..Len(libro[k].datos.filas) :
                LET r == libro[k].datos.filas[i]
                IN  IF Prerrequisitos \subseteq Columnas(libro[k].datos)
                    THEN /\ RiesgoSegunMora(r)
                         /\ ConRiesgoEnLinea => DeAcuerdo(r)
                    ELSE /\ r.v["Saldo riesgo capital"] = Num(0)
                         /\ r.v["Saldo riesgo total"] = Num(0)

\* a finished run whose ledger sheet has a row in arrears with a capital
\* balance, the inline amounts of the same row being in df_completo
C8_Testigo ==
    /\ pc = "fin"
    /\ resultado.t = "ok"
    /\ ConRiesgoEnLinea
    /\ \E k \in 1..Len(libro) :
          /\ libro[k].clase = "informe"
          /\ Prerrequisitos \subseteq Columnas(libro[k].datos)
          /\ \E i \in 1..Len(libro[k].datos.filas) :
                /\ Gt(libro[k].datos.filas[i].v["Dias de mora"], 0)
                /\ ~EqK(libro[k].datos.filas[i].v["Saldo capital"], 0)
          /\ \E i \in 1..Len(libro[k].datos.filas) :
                /\ ~Gt(libro[k].datos.filas[i].v["Dias de mora"], 0)
                /\ ~EqK(libro[k].datos.filas[i].v["Saldo capital"], 0)

\* C8 (as stated): on every row of every detail sheet risk_capital is the
\* capital balance and risk_total the total balance when arrears-days is
\* non-null and > 0, both 0 otherwise, and the inline amounts of the
\* aggregation functions agree with them.
C8_RiesgoSiempre ==
    \A k \in 1..Len(libro) :
        (libro[k].clase \in ClasesDetalle
         /\ {"Saldo capital", "Saldo total"} \subseteq Columnas(libro[k].datos)) =>
            \A i \in 1..Len(libro[k].datos.filas) :
                /\ RiesgoSegunMora(libro[k].datos.filas[i])
                /\ ConRiesgoEnLinea => DeAcuerdo(libro[k].datos.filas[i])

\* the uploaded workbook fails input validation
ArchivoInvalido ==
    \/ archivo.tamano > MAX_FILE_SIZE
    \/ \E i \in 1..Len(required_columns) :
          required_columns[i] \notin Columnas([cols |-> archivo.encabezados])
    \/ Len(archivo.filas) = 0

\* C9: a run on a workbook that is too large, lacks a required column or has
\* no data row ends by raising an error whose message carries the cause, and
\* nothing has been created at the output location.
C9_InvalidoRechazado ==
    (pc = "fin" /\ ArchivoInvalido) =>
        /\ resultado.t = "error"
        /\ resultado.causa # ""
        /\ ~salida.existe

\* the sheets the run writes after the ledger sheet are all in the file
HojasPosterioresEscritas ==
    /\ \E k \in 1..Len(salida.hojas) : salida.hojas[k].clase = "liquidacion"
    /\ \A i \in 1..Len(coordinaciones_data) :
          \E k \in 1..Len(salida.hojas) :
              /\ salida.hojas[k].clase = "unidad"
              /\ salida.hojas[k].nombre = NombreHoja(coordinaciones_data[i].coord.s)

\* C10: a run in which a styling, conditional-format or table-creation step
\* failed on a sheet still writes every later sheet and returns
\* (output path, unit count).
C10_FalloPorHoja ==
    (pc = "fin" /\ Len(fallos) > 0) =>
        /\ resultado.t = "ok"
        /\ resultado.ruta = ruta_salida
        /\ resultado.num = Len(coordinaciones_data)
        /\ HojasPosterioresEscritas

-----------------------------------------------------------------------------
(* C11: a failed macro splice leaves the workbook as it was                *)

EmpalmeFallido ==
    /\ pc = "fin"
    /\ plantilla.existe
    /\ fallo.hoja = "macros"

\* C11: when the splice of the VBA project fails at any point, also after the
\* rewriting of the output archive has begun, the run returns successfully and
\* the file at the returned path holds the complete workbook the writer saved,
\* without macros.
C11_EmpalmeFallidoIntacto ==
    EmpalmeFallido =>
        /\ resultado.t = "ok"
        /\ resultado.ruta = ruta_salida
        /\ salida.existe
        /\ salida.hojas = libro
        /\ ~salida.macros

-----------------------------------------------------------------------------
(* C12: the output path of two invocations                                 *)

\* C12: any two invocations, one after the other or at once, on the same
\* calendar day or not, compute different output file paths.
C12_RutasDistintas ==
    llamada.fn = "ruta_salida" => ret.a # ret.b

-----------------------------------------------------------------------------
(* C13: the sheet names of the units                                       *)

\* the names of the sheets that are not unit sheets
NombresFijos ==
    {HOJA_X_COORDINACION, HOJA_X_RECUPERADOR, fecha_actual, HOJA_MORA,
     HOJA_SALDO_VENCIDO, HOJA_LIQUIDACION}

\* C13: the sheet names of distinct non-null unit values have at most 31
\* characters, differ from each other, and none of them is the name of a
\* fixed sheet (aggregation sheets, dated ledger, "Mora", past-due,
\* early-settlement).
C13_NombresDeHojaDistintos ==
    llamada.fn = "sheet_name" =>
        /\ Len(ret.a) <= 31 /\ Len(ret.b) <= 31
        /\ ret.a # ret.b
        /\ ret.a \notin NombresFijos /\ ret.b \notin NombresFijos

-----------------------------------------------------------------------------
(* C14: the order of the sheets                                            *)

\* the place of each kind of sheet in the stated order
OrdenDeClase(clase) ==
    CASE clase = "x_coordinacion" -> 1
      [] clase = "x_recuperador"  -> 2
      [] clase = "informe"        -> 3
      [] clase = "mora"           -> 4
      [] clase = "saldo_vencido"  -> 5
      [] clase = "liquidacion"    -> 6
      [] clase = "unidad"         -> 7
      [] OTHER                    -> 0

LibroProducido ==
    /\ pc = "fin"
    /\ resultado.t = "ok"
    /\ fallo = SinFallo

\* C14: in every produced workbook, with or without a template, the sheets
\* are the aggregation sheets, the dated ledger, the delinquent sheet, the
\* past-due sheet, the early-settlement sheet and then one sheet per unit, in
\* that order, and no other sheet precedes or separates them.
C14_OrdenDeHojas ==
    LibroProducido =>
        /\ \A k \in 1..Len(salida.hojas) : OrdenDeClase(salida.hojas[k].clase) > 0
        /\ \A j \in 1..Len(salida.hojas) : \A i \in 1..(j - 1) :
               \/ OrdenDeClase(salida.hojas[i].clase) < OrdenDeClase(salida.hojas[j].clase)
               \/ /\ salida.hojas[i].clase = "unidad"
                  /\ salida.hojas[j].clase = "unidad"

-----------------------------------------------------------------------------
(* C15, C16: the geolocation link                                          *)

LlamadaGeo == llamada.fn = "generar_link_google_maps"

\* the value, blanks at both ends removed
TextoGeo == strip(llamada.arg.celda.s)

EsVacio == isna(llamada.arg.celda) \/ \A i \in 1..Len(llamada.arg.celda.s) :
                                          llamada.arg.celda.s[i] = " "

\* sub occurs in s
Aparece(s, sub) ==
    \E i \in 1..Len(s) :
        /\ i + Len(sub) - 1 <= Len(s)
        /\ \A k \in 1..Len(sub) : s[i + k - 1] = sub[k]

EsUrl ==
    \/ Aparece(TextoGeo, <<"h", "t", "t", "p">>)
    \/ Aparece(TextoGeo, <<"g", "o", "o", "g", "l", "e", ".", "c", "o", "m", "/", "m", "a", "p", "s">>)

\* the value holds a coordinate whose numerals are numbers
EsCoordenada ==
    /\ llamada.arg.origen.t = "dms"
    /\ llamada.arg.origen.lat.sec.ok
    /\ llamada.arg.origen.lon.sec.ok

\* C15: generar_link_google_maps answers every value with one (label, URL)
\* pair, by the first rule that applies among: blank or null (generic map
\* URL), holds "http" or the map domain (the value itself), a
\* degrees-minutes-seconds coordinate (search by coordinates), anything else
\* (search by the quoted text); a coordinate whose numerals do not parse is
\* answered by the last rule, and nothing is raised.
C15_PrimeraReglaAplicable ==
    LlamadaGeo =>
        /\ ret.t = "link"
        /\ IF EsVacio THEN ret.url = UrlTexto(URL_GENERICA)
           ELSE IF EsUrl THEN ret.url = UrlTexto(TextoGeo)
           ELSE IF EsCoordenada THEN ret.url.t = "coord" /\ ret.url.base = URL_BUSQUEDA
           ELSE /\ ret.url.t = "texto"
                /\ ret.url.s = URL_BUSQUEDA \o quote_plus(TextoGeo)

\* a coordinate with a malformed numeral, answered by the free-text rule
C15_Testigo ==
    /\ LlamadaGeo
    /\ llamada.arg.origen.t = "dms"
    /\ ~llamada.arg.origen.lat.sec.ok
    /\ ~EsUrl
    /\ ret.url.t = "texto"

\* deg + min/60 + sec/3600 of the fields of one half, negated on 'negativo'
GradosDecimales(m, negativo) ==
    Q((IF m.dir = negativo THEN -1 ELSE 1)
          * (m.deg.n * 3600 * m.sec.d + m.min.n * 60 * m.sec.d + m.sec.n),
      3600 * m.sec.d)

\* the remainder of long division after k decimal places
RECURSIVE Resto(_, _, _)
Resto(n, d, k) == IF k = 0 THEN n % d ELSE (Resto(n, d, k - 1) * 10) % d

\* floor(n/d * 10^k) for n >= 0
RECURSIVE Piso(_, _, _)
Piso(n, d, k) ==
    IF k = 0 THEN n \div d
    ELSE Piso(n, d, k - 1) * 10 + (Resto(n, d, k - 1) * 10) \div d

\* 19 12'12.2"N 100 07'51.8"W
EsMuestra(o) ==
    /\ o.lat.deg.n = 19 /\ o.lat.sec.n = 122 /\ o.lat.dir = "N"
    /\ o.lon.sec.n = 518 /\ o.lon.dir = "W"

\* C16: for a degrees-minutes-seconds value the URL query is "lat,lon", each
\* deg + min/60 + sec/3600, the latitude negated exactly when its hemisphere
\* is S and the longitude exactly when it is W; for 19 12'12.2"N
\* 100 07'51.8"W this is 19.203389,-100.131056 within rounding.
C16_GradosDecimales ==
    (LlamadaGeo /\ EsCoordenada /\ ~EsUrl) =>
        /\ ret.url.t = "coord"
        /\ ret.url.lat = GradosDecimales(llamada.arg.origen.lat, "S")
        /\ ret.url.lon = GradosDecimales(llamada.arg.origen.lon, "W")
        /\ EsMuestra(llamada.arg.origen) =>
              /\ Piso(ret.url.lat.n, ret.url.lat.d, 6) \in {19203388, 19203389}
              /\ Piso(-ret.url.lon.n, ret.url.lon.d, 6) \in {100131055, 100131056}

\* a southern and western coordinate, both negated
C16_Testigo ==
    /\ LlamadaGeo /\ EsCoordenada /\ ~EsUrl
    /\ llamada.arg.origen.lat.dir = "S" /\ llamada.arg.origen.lon.dir = "W"
    /\ llamada.arg.origen.lat.sec.n = 122
    /\ ret.url.t = "coord"
    /\ ret.url.lat.n < 0 /\ ret.url.lon.n < 0

-----------------------------------------------------------------------------
(* C17: the exclusion filters run on normalized identifiers                *)

\* every identifier of the frame is a string of 6 digits
IdentificadoresNormalizados(d) ==
    /\ Tiene(d, columna_codigo)
    /\ \A i \in 1..Len(d.filas) :
          /\ d.filas[i].v[columna_codigo].t = "str"
          /\ Len(d.filas[i].v[columna_codigo].s) = 6
          /\ TodosDigitos(d.filas[i].v[columna_codigo].s)

ColumnasDerivadas ==
    {"PAR", "link_texto", "link_url", "Concepto Deposito", "Saldo riesgo capital",
     "Saldo riesgo total", "% MORA"}

SinDerivadas(d) == Columnas(d) \cap ColumnasDerivadas = {}

\* the step that applies the caller's list: it yields df
FiltroDelLlamador ==
    /\ Len(codigos_a_excluir) > 0
    /\ df = NoDF /\ df' # NoDF
    /\ resultado'.t # "error"

\* the step that applies the fraud list: it yields df_filtrado
FiltroDeFraude == df_filtrado = NoDF /\ df_filtrado' # NoDF

\* C17: every exclusion filter, the fraud list and the caller's list alike,
\* is applied once the identifier column holds 6-digit strings and before
\* any derived column (bucket, links, deposit code, risk amounts, ratio)
\* exists: the frame a filter yields has normalized identifiers and no
\* derived column.
C17_FiltrosTrasNormalizar ==
    [][/\ FiltroDelLlamador =>
            IdentificadoresNormalizados(df') /\ SinDerivadas(df')
       /\ FiltroDeFraude =>
            IdentificadoresNormalizados(df_filtrado') /\ SinDerivadas(df_filtrado')]_vars

-----------------------------------------------------------------------------
(* C18: the arrears-age ranges of the aggregation tables                   *)

\* the range columns of the sheets, each with the label of its bucket
RangosDeHoja ==
    {<<"0", <<"0">> >>, <<"1-7 dias", <<"7">> >>, <<"8-15 dias", <<"1", "5">> >>,
     <<"16-30 dias", <<"3", "0">> >>, <<"31-60 dias", <<"6", "0">> >>,
     <<"61-90 dias", <<"9", "0">> >>, <<"Mayor_90", <<">", "9", "0">> >>}

\* the risk-total of the rows of fs whose bucket has the given label
RiesgoDelRango(fs, etiqueta) ==
    SumaCeldas([i \in 1..Len(fs) |->
        IF asignar_rango_mora(fs[i]["Dias de mora"]) = etiqueta
        THEN Monto(fs[i], "Saldo riesgo total") ELSE Num(0)])

\* the seven amounts of row v of a sheet, added up
SumaDeRangos(v) ==
    Add(Add(Add(v["0"], v["1-7 dias"]), Add(v["8-15 dias"], v["16-30 dias"])),
        Add(Add(v["31-60 dias"], v["61-90 dias"]), v["Mayor_90"]))

\* C18: in both aggregation tables, for every group row (the group of the
\* rows without unit included) and the Total row, and for each of the 7
\* arrears-age ranges, the amount of the range is the sum of risk_total over
\* the rows the table row covers whose bucket is that range; the 7 amounts
\* add up to the risk-total sum of the row.
C18_RangosPorMiembros ==
    \A k \in 1..Len(libro) :
        libro[k].clase \in ClasesAgregacion =>
            \A g \in 1..Len(libro[k].datos.filas) :
                /\ \A r \in RangosDeHoja :
                      libro[k].datos.filas[g].v[r[1]] =
                          RiesgoDelRango(Cubiertas(libro[k], g,
                                            LAMBDA f : ~EsFraude(f) /\ NoExcluida(f)),
                                         r[2])
                /\ SumaDeRangos(libro[k].datos.filas[g].v) =
                      libro[k].datos.filas[g].v["Saldo riesgo total"]

-----------------------------------------------------------------------------
(* C19: one deposit-concept code per record                                *)

\* the detail sheets that hold the deposit-concept column
HojasConConcepto ==
    {k \in 1..Len(libro) :
        /\ libro[k].clase \in ClasesDetalle
        /\ Tiene(libro[k].datos, "Concepto Deposito")
        /\ Tiene(libro[k].datos, "Ciclo")}

\* a surviving record of the same identifier holds a higher cycle than r
TieneCicloMayor(r) ==
    \E m \in 1..Len(df_completo.filas) :
        /\ df_completo.filas[m].v["Codigo acreditado"] = r.v["Codigo acreditado"]
        /\ StrToNat(df_completo.filas[m].v["Ciclo"].s) > StrToNat(r.v["Ciclo"].s)

\* C19: the deposit-concept code of a record is the same in every sheet that
\* holds the record (ledger, delinquent, past-due, unit sheet), and a record
\* that does not hold the maximum cycle among the surviving records of its
\* identifier has the empty code in every sheet, also in a sheet that lacks
\* its higher-cycle sibling.
C19_ConceptoIgualEnHojas ==
    /\ \A k1 \in HojasConConcepto, k2 \in HojasConConcepto :
          \A i \in 1..Len(libro[k1].datos.filas), j \in 1..Len(libro[k2].datos.filas) :
              libro[k1].datos.filas[i].idx = libro[k2].datos.filas[j].idx =>
                  libro[k1].datos.filas[i].v["Concepto Deposito"] =
                      libro[k2].datos.filas[j].v["Concepto Deposito"]
    /\ \A k \in HojasConConcepto :
          \A i \in 1..Len(libro[k].datos.filas) :
              TieneCicloMayor(libro[k].datos.filas[i]) =>
                  libro[k].datos.filas[i].v["Concepto Deposito"] = Str(<<>>)

-----------------------------------------------------------------------------
(* C20: the lookup formulas of the early-settlement sheet                  *)

\* the number of the column a column letter names
RECURSIVE NumeroDeColumna(_)
NumeroDeColumna(letras) ==
    IF Len(letras) = 0 THEN 0
    ELSE 26 * NumeroDeColumna(SubSeq(letras, 1, Len(letras) - 1))
         + (CHOOSE i \in 1..26 : Letras[i] = letras[Len(letras)])

\* the ledger header each formula cell of row 3 looks up
CampoBuscado(c) ==
    CASE c = "Nombre del acreditado" -> "Nombre acreditado"
      [] OTHER                       -> c

\* the sheets of the given kind that were written and laid out
HojasEscritas(clase) ==
    {k \in 1..Len(libro) : libro[k].clase = clase}

\* C20: every lookup formula in row 3 of the early-settlement sheet names the
\* ledger sheet and a column range from column A that covers all columns of
\* the ledger sheet as written, and its column index is the 1-based position,
\* in the ledger sheet as written, of the column whose header is the field
\* the formula looks up.
C20_FormulasDeBusqueda ==
    \A k \in HojasEscritas("liquidacion"), m \in HojasEscritas("informe") :
        \A c \in Columnas(libro[k].datos) :
            libro[k].datos.filas[1].v[c].t = "formula" =>
                /\ libro[k].datos.filas[1].v[c].hoja = libro[m].nombre
                /\ libro[k].datos.filas[1].v[c].desde = <<"A">>
                /\ NumeroDeColumna(libro[k].datos.filas[1].v[c].hasta)
                       >= Len(libro[m].datos.cols)
                /\ libro[k].datos.filas[1].v[c].indice \in 1..Len(libro[m].datos.cols)
                /\ libro[m].datos.cols[libro[k].datos.filas[1].v[c].indice]
                       = CampoBuscado(c)

-----------------------------------------------------------------------------
(* C21: a workbook that already carries a derived column                   *)

\* the derived-column names the uploaded header holds
DerivadasDeEntrada == NombresDerivados \cap Columnas([cols |-> archivo.encabezados])

\* the number of columns named c among the headers of frame d
Veces(d, c) == Cardinality({i \in 1..Len(d.cols) : d.cols[i] = c})

\* C21: when the uploaded workbook already has a column named like a derived
\* column (PAR, Concepto Deposito, Saldo riesgo capital, Saldo riesgo total,
\* % MORA) and no presentation step fails, the run still completes (it
\* returns the output path), and every data sheet written holds exactly one
\* column of that name.
C21_DerivadaDeEntrada ==
    (pc = "fin" /\ DerivadasDeEntrada # {} /\ fallos = <<>>) =>
        /\ resultado.t = "ok"
        /\ \A k \in 1..Len(libro) :
              libro[k].clase \in ClasesDetalle =>
                  \A c \in DerivadasDeEntrada : Veces(libro[k].datos, c) = 1

-----------------------------------------------------------------------------
(* C22: the header cells of a table                                        *)

\* the header cells of sheet h across the column range of its table
EncabezadosDeTabla(h) == SubSeq(h.fila2, h.tabla.col_inicio, h.tabla.col_fin)

Distintos(s) == \A i, j \in 1..Len(s) : i # j => s[i] # s[j]

\* the sheets of the workbook that carry a table object
ConTabla == SelectSeq(libro, LAMBDA h : h.tabla.existe)

\* C22: in every sheet that carries a table object, the header cells across
\* the table's full column range are pairwise distinct: for the data sheets
\* written after add_par_column and de-duplication, and for 'Mora' with its
\* manual-capture columns appended.
C22_EncabezadosDeTablaDistintos ==
    \A k \in 1..Len(ConTabla) :
        /\ Len(ConTabla[k].fila2) >= ConTabla[k].tabla.col_fin
        /\ Distintos(EncabezadosDeTabla(ConTabla[k]))

-----------------------------------------------------------------------------
(* C23: what the macro splice leaves of the generated archive              *)

\* the run returned and PASO 7 spliced the VBA project
EmpalmeHecho == pc = "fin" /\ resultado.t = "ok" /\ plantilla.existe /\ salida.macros

\* the generated archive, as the writer saved it
ArchivoGenerado == ArchivoDe("generado", Len(salida.hojas), FALSE)

\* the positions of the final archive that hold a member named nombre
Llamados(nombre) ==
    {i \in 1..Len(salida.miembros) : salida.miembros[i].nombre = nombre}

\* C23: the splice changes the generated archive only by adding the macro
\* container and its content-type registration: every member of the
\* generated archive is in the final archive exactly once, with the same
\* bytes (for [Content_Types].xml: still registering every part of the
\* generated archive), and the final archive holds nothing else but the
\* macro container.
C23_EmpalmeSoloAgrega ==
    EmpalmeHecho =>
        /\ \A k \in 1..Len(ArchivoGenerado) :
              LET e == ArchivoGenerado[k]
              IN  /\ Cardinality(Llamados(e.nombre)) = 1
                  /\ \A i \in Llamados(e.nombre) :
                        IF e.nombre = CONTENT_TYPES
                        THEN e.datos.tipos \subseteq salida.miembros[i].datos.tipos
                        ELSE salida.miembros[i].datos = e.datos
        /\ \A i \in 1..Len(salida.miembros) :
              \/ EsVba(salida.miembros[i].nombre)
              \/ \E k \in 1..Len(ArchivoGenerado) :
                     ArchivoGenerado[k].nombre = salida.miembros[i].nombre

-----------------------------------------------------------------------------
(* C24: the base workbook seeded from the template                         *)

\* the template was copied and prepared; no new sheet is written yet
BaseSembrada == pc = "hoja_x_coordinacion" /\ plantilla.existe

\* the sheets of the base workbook that the template already had
HojasDePlantilla ==
    SelectSeq(libro, LAMBDA h :
        \E i \in 1..Len(plantilla.hojas) : plantilla.hojas[i] = h.nombre)

\* C24: with a template of n >= 1 sheets, the base workbook into which the
\* new sheets are written holds none of the sheets the template had and
\* exactly one placeholder sheet.
C24_BaseSinHojasDePlantilla ==
    BaseSembrada =>
        /\ Len(HojasDePlantilla) = 0
        /\ Len(SelectSeq(libro, LAMBDA h : h.nombre = HOJA_TEMP)) = 1
        /\ Len(libro) = 1

-----------------------------------------------------------------------------
(* C25: the order of the group rows                                        *)

\* the cells of the key columns cs in row r
ClaveDe(r, cs) == [j \in 1..Len(cs) |-> r.v[cs[j]]]

\* the keys in the order in which the rows of the full ledger first show them
ClavesPorAparicion(cs) ==
    LET d == ConColumna(ConColumna(df_completo, "Codigo recuperador"),
                        "Nombre recuperador")
    IN  Unicos([i \in 1..Len(d.filas) |-> ClaveDe(d.filas[i], cs)])

\* the keys of the group rows of an aggregation table, in row order
ClavesDeTabla(h, cs) ==
    [i \in 1..(Len(h.datos.filas) - 1) |-> ClaveDe(h.datos.filas[i], cs)]

ClavesDeClase(clase) ==
    IF clase = "x_coordinacion" THEN <<"Coordinacion">> ELSE ClavesRecuperador

-----------------------------------------------------------------------------
(* C26: the table names of one workbook                                    *)

\* C26: within one workbook, two sheets that carry a table object and have
\* different sheet names have different table names.
C26_NombresDeTablaDistintos ==
    \A i, j \in 1..Len(ConTabla) :
        ConTabla[i].nombre # ConTabla[j].nombre =>
            ConTabla[i].tabla.displayName # ConTabla[j].tabla.displayName

-----------------------------------------------------------------------------
(* C27: every table name is a valid one                                    *)

LlamadaNombreDeTabla == llamada.fn = "generate_valid_table_name"

\* C27: for every sheet name (empty, starting with a digit, a dot or an
\* underscore, made of characters outside ASCII only, longer than 255
\* characters) generate_valid_table_name returns a name that is not empty,
\* starts with a letter or an underscore, holds only ASCII letters, digits,
\* underscores and dots, and has at most 255 characters.
C27_NombreDeTablaValido ==
    LlamadaNombreDeTabla =>
        /\ Len(ret.s) > 0
        /\ Len(ret.s) <= 255
        /\ EsLetra(ret.s[1]) \/ ret.s[1] = "_"
        /\ \A i \in 1..Len(ret.s) :
              EsLetra(ret.s[i]) \/ EsDigito(ret.s[i]) \/ ret.s[i] \in {"_", "."}

\* the name of a sheet longer than 255 characters that starts with a digit
\* was cut to 255 characters
C27_Testigo ==
    /\ LlamadaNombreDeTabla
    /\ Len(llamada.arg.s) > 255
    /\ EsDigito(llamada.arg.s[1])
    /\ Len(ret.s) = 255

-----------------------------------------------------------------------------
(* C28: the bucket column of the data sheets                               *)

\* the data sheets the workbook holds
HojasDeDetalle == HojasDe(libro, ClasesDetalle)

\* C28: every data sheet written (the full ledger, the delinquent and the
\* past-due sheets, each unit's sheet) has exactly one column named "PAR", and
\* it is the column immediately to the right of the arrears-days column; the
\* sheets are looked at as written, after the identifier column was moved
\* first and the link, deposit-code and risk columns were inserted.
C28_ParJuntoAMora ==
    \A k \in 1..Len(HojasDeDetalle) :
        LET d == HojasDeDetalle[k].datos
        IN  /\ Veces(d, "PAR") = 1
            /\ Veces(d, columna_mora) = 1
            /\ get_loc(d, "PAR") = get_loc(d, columna_mora) + 1

\* a finished run on a workbook whose first column is the address: the
\* ledger, the delinquent sheet and a unit's sheet are written, each with the
\* link, the deposit code and the risk columns, the ledger's first column
\* being the identifier
C28_Testigo ==
    /\ pc = "fin"
    /\ resultado.t = "ok"
    /\ archivo.encabezados[1] = columna_geolocalizacion
    /\ \A clase \in {"informe", "mora", "unidad"} :
          \E k \in 1..Len(HojasDeDetalle) :
             /\ HojasDeDetalle[k].clase = clase
             /\ {"Link de Geolocalizacion", "Concepto Deposito", "Saldo riesgo capital",
                 "Saldo riesgo total", "% MORA"}
                    \subseteq Columnas(HojasDeDetalle[k].datos)
             /\ clase = "informe" =>
                    HojasDeDetalle[k].datos.cols[1] = "Codigo acreditado"
-----------------------------------------------------------------------------
(* C29: the order of the rows of the ledger and of the unit sheets         *)

\* the index labels of the rows of frame d, in row order
Etiquetas29(d) == [i \in 1..Len(d.filas) |-> d.filas[i].idx]

\* the place of label x in the sequence of labels s
LugarDe(s, x) == CHOOSE i \in 1..Len(s) : s[i] = x

\* the rows of d are in non-increasing order of column c, the null ones last
NoCreciente(d, c) ==
    \A i, j \in 1..Len(d.filas) :
        i < j => /\ isna(d.filas[i].v[c]) => isna(d.filas[j].v[c])
                 /\ (notna(d.filas[i].v[c]) /\ notna(d.filas[j].v[c])) =>
                        ~GtNum(d.filas[j].v[c], d.filas[i].v[c])

\* the labels of u are labels of s, in the order they have in s
MismoOrden(u, s) ==
    /\ \A i \in 1..Len(u) : \E j \in 1..Len(s) : s[j] = u[i]
    /\ \A i, j \in 1..Len(u) : i < j => LugarDe(s, u[i]) < LugarDe(s, u[j])

\* C29: the full-ledger sheet holds every surviving row once, in
\* non-increasing order of arrears-days with the null arrears-days last; its
\* first column is the identifier column, as written with the derived
\* columns; the rows of every unit's sheet are in the relative order they have
\* in the ledger sheet.
C29_OrdenDelInforme ==
    \A k \in HojasEscritas("informe") :
        LET d == libro[k].datos
        IN  /\ Len(d.filas) = Len(df_filtrado.filas)
            /\ \A i \in 1..Len(df_filtrado.filas) :
                  \E j \in 1..Len(d.filas) : d.filas[j].idx = df_filtrado.filas[i].idx
            /\ NoCreciente(d, columna_mora)
            /\ d.cols[1] = columna_codigo
            /\ \A u \in HojasEscritas("unidad") :
                  MismoOrden(Etiquetas29(libro[u].datos), Etiquetas29(d))

\* a finished run on a workbook of three rows that are not in the order of
\* the ledger: a null arrears-days is the last row of the ledger, the derived
\* columns are written, and a unit's sheet has two rows in the reverse of the
\* workbook's order
C29_Testigo ==
    /\ pc = "fin"
    /\ resultado.t = "ok"
    /\ \E k \in HojasEscritas("informe") :
          /\ Len(libro[k].datos.filas) = 3
          /\ isna(libro[k].datos.filas[3].v[columna_mora])
          /\ notna(libro[k].datos.filas[2].v[columna_mora])
          /\ {"Concepto Deposito", "% MORA"} \subseteq Columnas(libro[k].datos)
    /\ \E u \in HojasEscritas("unidad") :
          /\ Len(libro[u].datos.filas) = 2
          /\ libro[u].datos.filas[1].idx > libro[u].datos.filas[2].idx
-----------------------------------------------------------------------------
(* C30: the delinquent and the past-due partitions                         *)

\* the index labels of the rows of a frame
EtiquetasDe(d) == {d.filas[i].idx : i \in 1..Len(d.filas)}

\* the labels of the surviving rows that satisfy P
Sobrevivientes(P(_)) ==
    {df_filtrado.filas[i].idx : i \in {j \in 1..Len(df_filtrado.filas) :
                                          P(df_filtrado.filas[j])}}

EnMora(r) == Ge(r.v[columna_mora], 1)

VencidoSinMora(r) ==
    /\ Ge(r.v["Saldo vencido"], 1)
    /\ (isna(r.v[columna_mora]) \/ Le(r.v[columna_mora], 0))

\* every row of frame d has a bucket that is "0" (si) or is not "0" (~si)
RangoCero(d, si) ==
    \A i \in 1..Len(d.filas) :
        Tiene(d, "PAR") => ((d.filas[i].v["PAR"] = Str(<<"0">>)) <=> si)

\* the two partitions are those rows of the surviving ones, each once, and
\* share no row
ParticionesExactas ==
    /\ df_mora # NoDF =>
          /\ EtiquetasDe(df_mora) = Sobrevivientes(EnMora)
          /\ Cardinality(EtiquetasDe(df_mora)) = Len(df_mora.filas)
    /\ df_saldo_vencido # NoDF =>
          /\ EtiquetasDe(df_saldo_vencido) = Sobrevivientes(VencidoSinMora)
          /\ Cardinality(EtiquetasDe(df_saldo_vencido)) = Len(df_saldo_vencido.filas)
          /\ EtiquetasDe(df_mora) \cap EtiquetasDe(df_saldo_vencido) = {}

\* C30: the Delinquent partition is exactly the surviving rows with
\* arrears-days >= 1, the Past-Due-No-Arrears partition is exactly the
\* surviving rows with overdue balance >= 1 and arrears-days null or <= 0; the
\* two are disjoint; every Delinquent row has a bucket other than "0" and
\* every Past-Due-No-Arrears row has the bucket "0".
C30_ParticionesYRangos ==
    /\ ParticionesExactas
    /\ df_mora # NoDF => RangoCero(df_mora, FALSE)
    /\ df_saldo_vencido # NoDF => RangoCero(df_saldo_vencido, TRUE)
====
